---- MODULE Spec2Model ----
(***************************************************************************)
(* Verification model of the blog CMS: the in-memory rate limiter          *)
(* (lib/rateLimit), the session store and authorization gate (lib/auth,    *)
(* lib/authz), and the post / comment / contact-message handlers (API      *)
(* routes and server actions).                                             *)
(*                                                                         *)
(* Each subsystem has its own next-state relation over the shared          *)
(* variables: SpecRL (rate limiter), SpecSession (session lifecycle),      *)
(* SpecAuthz (authorization gate with interleaved requests), SpecComments  *)
(* (comment submission, listing and moderation), SpecModeration (the       *)
(* writes to comments and contact messages), SpecPosts (post CRUD),        *)
(* SpecSetup (first-run setup with interleaved requests), SpecLogin (the   *)
(* rate-limited login route), SpecSpam (checkSpam on its own), SpecSubmit  *)
(* (comment submission with request bodies of any kind), SpecSlug (the     *)
(* /api/posts/[slug] handlers with the limiter's store), SpecRedis (the    *)
(* rate limiter with the external store), SpecRehash (login of a user with *)
(* a legacy hash), SpecSlugs (concurrent post creation), SpecImages (post  *)
(* update with image resync), SpecSanitize (sanitizeComment on its own),   *)
(* SpecCallers (the external-store limiter call by call), SpecPresets (one *)
(* identifier under several presets) and SpecCache (appCache).             *)
(***************************************************************************)
EXTENDS Integers, Sequences, FiniteSets, TLC

VARIABLES
    now,            \* Date.now() / new Date(): the wall clock
    requestStore,   \* rateLimit: Map<string, number[]>, identifier -> timestamps
    lastCleanup,    \* rateLimit: time of the last cleanupExpiredEntries sweep
    rlPolicy,       \* the {windowMs, maxRequests} policy the calls are made under
    rlAdmitted,     \* history: per identifier, the timestamps of the admitted calls
    rlResult,       \* the RateLimitResult of the last checkRateLimit call
    redisCounters,  \* Upstash Redis: ratelimit:<key>:<bucket> -> count and expiry
    users,          \* prisma.user: the User rows
    sessions,       \* prisma.session: the Session rows
    nextToken,      \* the number of session tokens generated so far
    issued,         \* history: token -> the time login created its session
    loggedOut,      \* history: the tokens logout was called with
    purged,         \* history: the tokens getSession found expired
    authLast,       \* the last completed getSession call and what it returned
    reqs,           \* per in-flight request: its position in requireAdmin
    posts,          \* prisma.post: the Post rows
    comments,       \* prisma.comment: the Comment rows
    messages,       \* prisma.contactMessage: the ContactMessage rows
    nextId,         \* per table, the number of ids generated so far
    responseCache,  \* /api/posts: Map<cacheKey, {timestamp, payload}>
    modLog,         \* history: the comments moderation touched / set approved on
    postImages,     \* prisma.postImage: the committed PostImage rows
    appCache,       \* lib/cache appCache: the LruCache entries and its in-flight loads
    cmsLast         \* the last handler call: who called, what it did, what it returned

rlVars == <<requestStore, lastCleanup, rlPolicy, rlAdmitted, rlResult, redisCounters>>

authVars == <<users, sessions, nextToken, issued, loggedOut, purged, authLast>>

cmsVars == <<posts, comments, messages, nextId, responseCache, modLog, postImages,
            appCache, cmsLast>>

vars == <<now, rlVars, authVars, reqs, cmsVars>>

\* ------------------------------------------------------------------------
\* Bounds of the model
\* ------------------------------------------------------------------------

\* The clock advances in steps of TickMs milliseconds, at most MaxTicks times.
TickMs == 20000
MaxTicks == 3

\* Policies {windowMs, maxRequests} range over 1..MaxRequestsBound requests.
MaxRequestsBound == 2

NoValue == "none"

\* prisma tables empty, no token generated
AuthInit ==
    /\ users = {}
    /\ sessions = {}
    /\ nextToken = 1
    /\ issued = <<>>
    /\ loggedOut = {}
    /\ purged = {}
    /\ authLast = [op |-> NoValue]

\* a request without a comment body, and no response
NoComment ==
    [len |-> 0, pad |-> 0, links |-> 0, high |-> 0, medium |-> 0, low |-> 0,
     email |-> "none", upper |-> FALSE, urlName |-> FALSE]
NoBody == [postId |-> 0, nameLen |-> 0, comment |-> NoComment]
NoResponse == [status |-> 0, message |-> ""]

\* a body field that is missing or of the wrong type, and a request without
\* moderation fields
Absent == "absent"
NoPatch == [id |-> 0, approved |-> Absent, status |-> Absent]

\* the handler record before any handler has run
IdleCall ==
    [op |-> NoValue, authorized |-> FALSE, changed |-> FALSE, returned |-> {},
     request |-> NoBody, response |-> NoResponse, classified |-> FALSE,
     revalidated |-> {}, patch |-> NoPatch]

\* prisma tables empty, responseCache = new Map()
CmsInit ==
    /\ posts = {}
    /\ comments = {}
    /\ messages = {}
    /\ nextId = [post |-> 1, comment |-> 1, message |-> 1]
    /\ responseCache = <<>>
    /\ modLog = [touched |-> {}, approvedSet |-> {}]
    /\ postImages = {}
    /\ appCache = <<>>
    /\ cmsLast = IdleCall

\* requestStore empty, lastCleanup = Date.now() at module load
RateLimitInit ==
    /\ requestStore = <<>>
    /\ lastCleanup = 0
    /\ rlAdmitted = [k \in {"ip1", "ip2"} |-> <<>>]
    /\ redisCounters = <<>>
    /\ rlResult = [key |-> NoValue, at |-> 0, allowed |-> TRUE, remaining |-> 0,
                   resetAt |-> 0, retryAfterMs |-> 0]

\* ------------------------------------------------------------------------
\* Rate limiter (in-memory branch, redis = null)
\* ------------------------------------------------------------------------

CLEANUP_INTERVAL_MS == 60000

Identifiers == {"ip1", "ip2"}

\* rateLimitPresets.comment, and policies with other windows and quotas
CommentPreset == [windowMs |-> 60000, maxRequests |-> 3]

Policies ==
    {CommentPreset} \cup
    {[windowMs |-> w, maxRequests |-> m] : w \in {40000, 60000}, m \in 1..MaxRequestsBound}

Max(a, b) == IF a >= b THEN a ELSE b

\* timestamps.filter((ts) => ts > cutoff)
FilterAfter(timestamps, cutoff) == SelectSeq(timestamps, LAMBDA ts : ts > cutoff)

\* cleanupExpiredEntries(windowMs): the store after the call
CleanupStore(store, last, windowMs, t) ==
    IF t - last < CLEANUP_INTERVAL_MS
    THEN store
    ELSE LET cutoff == t - windowMs
             kept == {k \in DOMAIN store : Len(FilterAfter(store[k], cutoff)) # 0}
         IN  [k \in kept |-> FilterAfter(store[k], cutoff)]

\* cleanupExpiredEntries(windowMs): lastCleanup after the call
CleanupStamp(last, t) ==
    IF t - last < CLEANUP_INTERVAL_MS THEN last ELSE t

\* const validTimestamps = (requestStore.get(key) || []).filter(ts > windowStart)
ValidTimestamps(store, key, windowMs, t) ==
    FilterAfter(IF key \in DOMAIN store THEN store[key] ELSE <<>>, t - windowMs)

\* an off-by-one limit check: one call too many is admitted
AdmitsOffByOne(valid, maxRequests) == ~(Len(valid) > maxRequests)

\* the admit / reject decision of the memory branch
Admits(valid, maxRequests) == ~(Len(valid) >= maxRequests)

\* checkRateLimit(request, config) with keyGenerator(request) = key.  The
\* memory branch has no await: the call runs to completion once started.
CheckRateLimit(key, cfg) ==
    LET store == CleanupStore(requestStore, lastCleanup, cfg.windowMs, now)
        valid == ValidTimestamps(store, key, cfg.windowMs, now)
        remaining == Max(0, cfg.maxRequests - Len(valid))
        resetAt == (IF Len(valid) > 0 THEN valid[1] ELSE now) + cfg.windowMs
    IN  /\ lastCleanup' = CleanupStamp(lastCleanup, now)
        /\ IF ~Admits(valid, cfg.maxRequests)
           THEN /\ requestStore' = store
                /\ rlAdmitted' = rlAdmitted
                /\ rlResult' = [key |-> key, at |-> now, allowed |-> FALSE,
                                remaining |-> 0, resetAt |-> resetAt,
                                retryAfterMs |-> Max(0, valid[1] + cfg.windowMs - now)]
           ELSE /\ requestStore' =
                      [k \in DOMAIN store \cup {key} |->
                          IF k = key THEN Append(valid, now) ELSE store[k]]
                /\ rlAdmitted' = [rlAdmitted EXCEPT ![key] = Append(@, now)]
                /\ rlResult' = [key |-> key, at |-> now, allowed |-> TRUE,
                                remaining |-> remaining - 1, resetAt |-> resetAt,
                                retryAfterMs |-> 0]

\* rateLimitPresets.auth, .read and .write
AuthPreset == [windowMs |-> 900000, maxRequests |-> 5]
ReadPreset == [windowMs |-> 60000, maxRequests |-> 100]
WritePreset == [windowMs |-> 60000, maxRequests |-> 30]

\* rateLimitMiddleware(request, cfg).response is null
RateLimitAllows(key, cfg) ==
    Admits(ValidTimestamps(CleanupStore(requestStore, lastCleanup, cfg.windowMs, now),
                           key, cfg.windowMs, now),
           cfg.maxRequests)

\* the calls of one identifier that a run admits
MaxSlugCalls == 31

\* the key of a request in a specification that leaves the limiter's store out
Untracked == NoValue

\* `const rateLimit = rateLimitMiddleware(request, cfg)` without await: the
\* memory branch of checkRateLimit runs to completion inside the call, and the
\* handler goes on with a pending promise, whose .response is undefined
\* whatever was decided
UnawaitedRateLimit(key, cfg) ==
    IF key = Untracked THEN UNCHANGED rlVars
    ELSE /\ RateLimitAllows(key, cfg) => Len(rlAdmitted[key]) < MaxSlugCalls
         /\ CheckRateLimit(key, cfg)
         /\ UNCHANGED <<rlPolicy, redisCounters>>

\* One call of one identifier under the policy in force
RateLimitedCall ==
    \E key \in Identifiers :
        /\ CheckRateLimit(key, rlPolicy)
        /\ UNCHANGED <<now, rlPolicy, redisCounters, authVars, reqs, cmsVars>>

\* Time passes between calls
Tick ==
    /\ now < MaxTicks * TickMs
    /\ now' = now + TickMs
    /\ UNCHANGED <<rlVars, authVars, reqs, cmsVars>>

InitRL ==
    /\ now = 0
    /\ RateLimitInit
    /\ rlPolicy \in Policies
    /\ AuthInit
    /\ reqs = <<>>
    /\ CmsInit

NextRL == RateLimitedCall \/ Tick

SpecRL == InitRL /\ [][NextRL]_vars

\* ------------------------------------------------------------------------
\* C1
\* ------------------------------------------------------------------------

\* the admitted calls of key with timestamps in the rolling interval (t - w, t]
AdmittedIn(key, t, w) ==
    {i \in 1..Len(rlAdmitted[key]) : rlAdmitted[key][i] > t - w /\ rlAdmitted[key][i] <= t}

\* C1: under one policy {windowMs, maxRequests}, for every identifier and every
\* rolling interval of length windowMs (taken as (t - windowMs, t], it is enough
\* to let t range over the admitted timestamps), the number of admitted
\* checkRateLimit calls with a timestamp in the interval is at most maxRequests.
C1_RollingWindowBound ==
    \A key \in Identifiers :
        \A i \in 1..Len(rlAdmitted[key]) :
            Cardinality(AdmittedIn(key, rlAdmitted[key][i], rlPolicy.windowMs))
                <= rlPolicy.maxRequests

\* a call was rejected after time passed, with maxRequests earlier calls admitted
\* in the window and an older admitted call already outside it
C1_Witness ==
    /\ rlResult.allowed = FALSE
    /\ \E key \in Identifiers :
        /\ rlResult.key = key
        /\ Len(rlAdmitted[key]) > rlPolicy.maxRequests
        /\ Cardinality(AdmittedIn(key, now, rlPolicy.windowMs)) = rlPolicy.maxRequests
        /\ rlAdmitted[key][1] < now - rlPolicy.windowMs

\* ------------------------------------------------------------------------
\* Session store and authenticator (lib/auth)
\* ------------------------------------------------------------------------

SESSION_DURATION_DAYS == 7

\* Date arithmetic of expiresAt.setDate(getDate() + n): one day in milliseconds
MS_PER_DAY == 86400000

\* At most MaxSessions sessions are created; the clock of the session store
\* advances by 3 or 4 days at a time, up to MaxDays days.
MaxSessions == 2
MaxDays == 8

TickDays == {3, 4}

\* process.env.ADMIN_EMAIL, and the emails a caller may type
ADMIN_EMAIL == "Admin@X.com"

Emails == {"Admin@X.com", "admin@x.com", "other@x.com"}

\* two passwords of 73 bytes that share their first 72 bytes
LongPasswords == {"72 bytes + a", "72 bytes + b"}

Passwords == {"hunter22", "wrong-pw"} \cup LongPasswords

\* null: no row found, no user returned; a missing cookie
NoRow == [id |-> 0]
NoUser == 0
NoToken == 0

\* a cookie value that is the token of no session
ForgedToken == MaxSessions + 1

\* String.prototype.toLowerCase on the emails of the model
ToLowerCase(e) == IF e = "Admin@X.com" THEN "admin@x.com" ELSE e

\* bcrypt keys on the first 72 bytes of the password
Truncate72(password) == IF password \in LongPasswords THEN "72 bytes" ELSE password

\* the hash is stored in the legacy format again
HashPasswordLegacy(password) == [fmt |-> "legacy", of |-> password]

\* hashPassword: `bcrypt$` + bcrypt.hashSync(password)
HashPassword(password) == [fmt |-> "bcrypt", of |-> Truncate72(password)]

\* a salt:hash value of the legacy format, PBKDF2 over the whole password
LegacyHash(password) == [fmt |-> "legacy", of |-> password]

\* verifyPassword: bcrypt.compareSync for a bcrypt$ hash, verifyLegacyPassword
\* otherwise
VerifyPassword(password, storedHash) ==
    IF storedHash.fmt = "bcrypt"
    THEN [valid |-> storedHash.of = Truncate72(password), needsRehash |-> FALSE]
    ELSE [valid |-> storedHash.of = password, needsRehash |-> storedHash.of = password]

\* prisma.user.findUnique({ where: { email } })
FindUser(email) ==
    IF \E u \in users : u.email = email
    THEN CHOOSE u \in users : u.email = email
    ELSE NoRow

UserById(id) == CHOOSE u \in users : u.id = id

\* createAdminUser(email, password, name)
CreateAdminUser(email, password) ==
    users' = users \cup {[id |-> Cardinality(users) + 1,
                          email |-> ToLowerCase(email),
                          passwordHash |-> HashPassword(password)]}

\* POST /api/auth/setup with a complete payload: refused once a user exists
SetupRoute ==
    \E email \in Emails \ {"admin@x.com"} :
        /\ IF Cardinality(users) > 0 \/ FindUser(ToLowerCase(email)) # NoRow
           THEN UNCHANGED users
           ELSE CreateAdminUser(email, "hunter22")
        /\ UNCHANGED <<now, rlVars, sessions, nextToken, issued, loggedOut, purged,
                       authLast, reqs, cmsVars>>

\* prisma.session.findUnique({ where: { token }, include: { user: true } })
FindSession(store, token) ==
    IF \E row \in store : row.token = token
    THEN CHOOSE row \in store : row.token = token
    ELSE NoRow

\* session.expiresAt < new Date()
SessionExpired(row, t) == row.expiresAt < t

\* the cookie values a caller can present: none, a value that is no token of
\* the store, or a token generated so far
Cookies == {NoToken, ForgedToken} \cup (1..(nextToken - 1))

\* an expired session is left in the table
SessionsAfterGetKeepsRow(store, row, t) == store

\* getSession: the Session table after the call that found row
SessionsAfterGet(store, row, t) ==
    IF row # NoRow /\ SessionExpired(row, t) THEN store \ {row} ELSE store

\* getSession: the value returned by the call that found row (null or the user id)
GetSessionResult(row, t) ==
    IF row = NoRow \/ SessionExpired(row, t) THEN NoUser ELSE row.userId

\* getSession() of a request whose session cookie is `cookie`, run on its own
GetSessionOf(store, cookie, t) ==
    IF cookie = NoToken THEN NoUser ELSE GetSessionResult(FindSession(store, cookie), t)

\* createSession(userId): the new Session row
NewSession(userId, token, t) ==
    [id |-> token, token |-> token, userId |-> userId,
     expiresAt |-> t + SESSION_DURATION_DAYS * MS_PER_DAY]

\* login(email, password) finds the user and the password verifies
LoginOk(email, password) ==
    /\ FindUser(ToLowerCase(email)) # NoRow
    /\ VerifyPassword(password, FindUser(ToLowerCase(email)).passwordHash).valid

\* login(email, password): what it writes
LoginWrites(email, password) ==
    LET user == FindUser(ToLowerCase(email))
    IN  IF LoginOk(email, password)
        THEN /\ sessions' = sessions \cup {NewSession(user.id, nextToken, now)}
             /\ issued' = [tk \in DOMAIN issued \cup {nextToken} |->
                              IF tk = nextToken THEN now ELSE issued[tk]]
             /\ nextToken' = nextToken + 1
             /\ users' =
                  IF VerifyPassword(password, user.passwordHash).needsRehash
                  THEN (users \ {user}) \cup
                       {[user EXCEPT !.passwordHash = HashPassword(password)]}
                  ELSE users
        ELSE UNCHANGED <<sessions, issued, nextToken, users>>

\* login(email, password)
Login ==
    \E email \in Emails, password \in Passwords :
        /\ LoginOk(email, password) => nextToken <= MaxSessions
        /\ LoginWrites(email, password)
        /\ UNCHANGED <<now, rlVars, loggedOut, purged, authLast, reqs, cmsVars>>

\* logout deletes every session of the user instead of the one with the token
SessionsAfterLogoutOfUser(store, cookie) ==
    IF FindSession(store, cookie) = NoRow THEN store
    ELSE {row \in store : row.userId # FindSession(store, cookie).userId}

\* logout(): prisma.session.deleteMany({ where: { token } })
SessionsAfterLogout(store, cookie) == {row \in store : row.token # cookie}

Logout ==
    \E cookie \in Cookies :
        /\ sessions' = IF cookie # NoToken THEN SessionsAfterLogout(sessions, cookie)
                       ELSE sessions
        /\ loggedOut' = IF cookie # NoToken THEN loggedOut \cup {cookie} ELSE loggedOut
        /\ UNCHANGED <<now, rlVars, users, nextToken, issued, purged, authLast, reqs, cmsVars>>

\* getSession(), run to completion
GetSession ==
    \E cookie \in Cookies :
        LET row == IF cookie = NoToken THEN NoRow ELSE FindSession(sessions, cookie)
            expired == row # NoRow /\ SessionExpired(row, now)
        IN  /\ sessions' = SessionsAfterGet(sessions, row, now)
            /\ purged' = IF expired THEN purged \cup {cookie} ELSE purged
            /\ authLast' = [op |-> "getSession", cookie |-> cookie, at |-> now,
                            result |-> GetSessionResult(row, now),
                            expired |-> expired,
                            wasPurged |-> cookie \in purged]
            /\ UNCHANGED <<now, rlVars, users, nextToken, issued, loggedOut, reqs, cmsVars>>

\* days pass
DayTick ==
    \E d \in TickDays :
        /\ now + d * MS_PER_DAY <= MaxDays * MS_PER_DAY
        /\ now' = now + d * MS_PER_DAY
        /\ UNCHANGED <<rlVars, authVars, reqs, cmsVars>>

\* the rate limiter plays no part in the session specifications
RateLimitIdle ==
    /\ RateLimitInit
    /\ rlPolicy = CommentPreset

InitSession ==
    /\ now = 0
    /\ RateLimitIdle
    /\ AuthInit
    /\ reqs = <<>>
    /\ CmsInit

NextSession == SetupRoute \/ Login \/ Logout \/ GetSession \/ DayTick

SpecSession == InitSession /\ [][NextSession]_vars

\* ------------------------------------------------------------------------
\* C8
\* ------------------------------------------------------------------------

\* C8: a getSession call that finds a session whose expiresAt is in the past
\* returns null and leaves no row with that token in the Session table, and
\* every later getSession call with the same token returns null as well.
C8_ExpiredSessionPurged ==
    authLast.op = "getSession" =>
        /\ authLast.expired =>
              /\ authLast.result = NoUser
              /\ FindSession(sessions, authLast.cookie) = NoRow
        /\ authLast.wasPurged =>
              /\ authLast.result = NoUser
              /\ FindSession(sessions, authLast.cookie) = NoRow

\* getSession was called a second time with the token of a session it had
\* found expired and deleted
C8_Witness ==
    /\ authLast.op = "getSession"
    /\ authLast.wasPurged
    /\ ~authLast.expired
    /\ authLast.cookie \in DOMAIN issued
    /\ authLast.cookie \notin loggedOut

\* ------------------------------------------------------------------------
\* C9
\* ------------------------------------------------------------------------

SessionLifetimeMs == SESSION_DURATION_DAYS * MS_PER_DAY

\* token was handed out by a successful login and never passed to logout
IssuedAndNotLoggedOut(token) == token \in DOMAIN issued /\ token \notin loggedOut

\* C9 as stated: getSession(token) returns a user if and only if a successful
\* login created a session with that token, LESS THAN 7 days have passed since,
\* and no logout was performed with that token.
C9_AsStated ==
    \A cookie \in Cookies :
        GetSessionOf(sessions, cookie, now) # NoUser
            <=> /\ IssuedAndNotLoggedOut(cookie)
                /\ now - issued[cookie] < SessionLifetimeMs

\* C9 (amended): at any point of any sequence of login, logout and getSession
\* operations, getSession(token) returns a user if and only if a successful login
\* created a session with that token, NO MORE THAN 7 days have passed since its
\* creation (the session is still valid at the instant expiresAt), and no logout
\* was performed with that token; in particular a logout with one token leaves
\* the sessions of every other token, also of the same user, valid.
C9_SessionLifecycle ==
    \A cookie \in Cookies :
        GetSessionOf(sessions, cookie, now) # NoUser
            <=> /\ IssuedAndNotLoggedOut(cookie)
                /\ now - issued[cookie] <= SessionLifetimeMs

\* getSession has just returned the user for one token, exactly 7 days after
\* its login and after a logout with an older token of the same user
C9_Witness ==
    /\ authLast.op = "getSession"
    /\ authLast.at = now
    /\ authLast.result # NoUser
    /\ now - issued[authLast.cookie] = SessionLifetimeMs
    /\ \E other \in DOMAIN issued :
          /\ other # authLast.cookie
          /\ other \in loggedOut
          /\ issued[other] <= issued[authLast.cookie]

\* ------------------------------------------------------------------------
\* Authorization gate (lib/authz), requests interleaving at their awaits
\* ------------------------------------------------------------------------

\* the number of requests in flight at once
NumRequests == 2

Reqs == 1..NumRequests

GateKinds == {"requireAdmin", "requireAdminResponse"}

\* isAdmin(email)
IsAdmin(email) ==
    IF email = NoValue THEN FALSE
    ELSE IF ADMIN_EMAIL = NoValue THEN FALSE
    ELSE ToLowerCase(email) = ToLowerCase(ADMIN_EMAIL)

\* requireAdmin() once getSession has returned: 200 stands for the user being
\* returned, 401 and 403 for the ApiError thrown
RequireAdminStatus(userId) ==
    IF userId = NoUser THEN 401
    ELSE IF ~IsAdmin(UserById(userId).email) THEN 403
    ELSE 200

\* what the gate makes of an error that getSession threw and that is no
\* ApiError: requireAdmin lets it through (500 stands for the foreign error),
\* requireAdminResponse answers 403
GateStatusOnThrow(kind) == IF kind = "requireAdmin" THEN 500 ELSE 403

IdleRequest == [pc |-> "idle"]

\* the request reads its cookie and awaits prisma.session.findUnique
AuthzBegin(r) ==
    /\ reqs[r].pc \in {"idle", "done"}
    /\ \E cookie \in Cookies, kind \in GateKinds :
          reqs' = [reqs EXCEPT ![r] =
              IF cookie = NoToken
              THEN [pc |-> "done", kind |-> kind, cookie |-> cookie, userId |-> NoUser,
                    existed |-> FALSE, at |-> now,
                    status |-> RequireAdminStatus(NoUser)]
              ELSE [pc |-> "found", kind |-> kind, cookie |-> cookie,
                    row |-> FindSession(sessions, cookie),
                    existed |-> FindSession(sessions, cookie) # NoRow]]
    /\ UNCHANGED <<now, rlVars, authVars, cmsVars>>

\* the rest of getSession and of the gate: the expiry test, the delete of the
\* expired row (prisma.session.delete throws when the row is gone), the answer
AuthzFinish(r) ==
    /\ reqs[r].pc = "found"
    /\ LET q == reqs[r]
           expired == q.row # NoRow /\ SessionExpired(q.row, now)
           gone == expired /\ q.row \notin sessions
       IN  /\ sessions' = IF gone THEN sessions ELSE SessionsAfterGet(sessions, q.row, now)
           /\ purged' = IF expired THEN purged \cup {q.cookie} ELSE purged
           /\ reqs' = [reqs EXCEPT ![r] =
                 [pc |-> "done", kind |-> q.kind, cookie |-> q.cookie,
                  userId |-> IF q.existed THEN q.row.userId ELSE NoUser,
                  existed |-> q.existed, at |-> now,
                  status |-> IF gone THEN GateStatusOnThrow(q.kind)
                             ELSE RequireAdminStatus(GetSessionResult(q.row, now))]]
    /\ UNCHANGED <<now, rlVars, users, nextToken, issued, loggedOut, authLast, cmsVars>>

InitAuthz ==
    /\ now = 0
    /\ RateLimitIdle
    /\ AuthInit
    /\ reqs = [r \in Reqs |-> IdleRequest]
    /\ CmsInit

NextAuthz ==
    \/ SetupRoute
    \/ Login
    \/ Logout
    \/ DayTick
    \/ \E r \in Reqs : AuthzBegin(r)
    \/ \E r \in Reqs : AuthzFinish(r)

SpecAuthz == InitAuthz /\ [][NextAuthz]_vars

\* ------------------------------------------------------------------------
\* C10
\* ------------------------------------------------------------------------

\* the request carried a valid session: a row with its token existed when it
\* was looked up and was not past its expiry when the gate decided
CarriedValidSession(q) ==
    /\ q.existed
    /\ q.at - issued[q.cookie] <= SessionLifetimeMs

\* the user of the session the request carried is the admin
CarriedAdminSession(q) ==
    \E u \in users : u.id = q.userId /\ ToLowerCase(u.email) = ToLowerCase(ADMIN_EMAIL)

\* C10: requireAdmin / requireAdminResponse succeeds if and only if the request
\* carries a valid session whose user's email equals ADMIN_EMAIL
\* case-insensitively; every request without a valid session is answered 401,
\* and 403 is returned only when a valid session exists whose user is not the
\* admin, also when requests with the same expired token run concurrently.
C10_GateOutcome ==
    \A r \in Reqs :
        reqs[r].pc = "done" =>
            /\ reqs[r].status = 200
                  <=> (CarriedValidSession(reqs[r]) /\ CarriedAdminSession(reqs[r]))
            /\ ~CarriedValidSession(reqs[r]) => reqs[r].status = 401
            /\ reqs[r].status = 403
                  => (CarriedValidSession(reqs[r]) /\ ~CarriedAdminSession(reqs[r]))

\* ------------------------------------------------------------------------
\* Posts, comments and contact messages: the API routes and server actions.
\* A handler runs to completion once the rate limiter has admitted the
\* request; request bodies pass the field validation.
\* ------------------------------------------------------------------------

\* the number of Post, Comment and ContactMessage rows ever created
MaxPosts == 1
MaxComments == 1
MaxMessages == 1

\* an id that names no row
MissingId == 0

PostIds == MissingId..(nextId.post - 1)
CommentIds == MissingId..(nextId.comment - 1)
MessageIds == MissingId..(nextId.message - 1)

\* the caller holds a valid session whose user is the admin
HoldsAdminSession(cookie) ==
    /\ IssuedAndNotLoggedOut(cookie)
    /\ now - issued[cookie] <= SessionLifetimeMs
    /\ \E row \in sessions, u \in users :
          /\ row.token = cookie
          /\ u.id = row.userId
          /\ ToLowerCase(u.email) = ToLowerCase(ADMIN_EMAIL)

\* requireAdmin() / requireAdminResponse() of the request: 200, 401 or 403
AdminGate(cookie) == RequireAdminStatus(GetSessionOf(sessions, cookie, now))

\* the getSession call inside the gate purges the expired row it finds
Gate(cookie) ==
    LET row == IF cookie = NoToken THEN NoRow ELSE FindSession(sessions, cookie)
    IN  /\ sessions' = SessionsAfterGet(sessions, row, now)
        /\ purged' = IF row # NoRow /\ SessionExpired(row, now)
                     THEN purged \cup {cookie} ELSE purged

\* what a handler leaves alone outside the tables and the session store
HandlerFrame == UNCHANGED <<now, rlVars, users, nextToken, issued, loggedOut, authLast, reqs,
                            postImages, appCache>>

\* the same for a handler that calls the rate limiter
LimitedFrame == UNCHANGED <<now, users, nextToken, issued, loggedOut, authLast, reqs,
                            postImages, appCache>>

\* the record of a handler call
Call(op, cookie, changed, returned) ==
    [op |-> op, authorized |-> HoldsAdminSession(cookie), changed |-> changed,
     returned |-> returned, request |-> NoBody, response |-> NoResponse,
     classified |-> FALSE, revalidated |-> {}, patch |-> NoPatch]

\* a path given to revalidatePath: slug is MissingId for a path without one
Path(page, slug) == [page |-> page, slug |-> slug]

\* the call record of a handler that called revalidatePath on `paths`
Revalidating(call, reached, paths) ==
    [call EXCEPT !.revalidated = IF reached THEN paths ELSE {}]

\* --- posts: server actions (lib/actions) ---

\* createPost(formData): published is the form's checkbox
CreatePost ==
    \E cookie \in Cookies, published \in BOOLEAN :
        LET ok == AdminGate(cookie) = 200
        IN  /\ ok => nextId.post <= MaxPosts
            /\ Gate(cookie)
            /\ posts' = IF ok
                        THEN posts \cup {[id |-> nextId.post, slug |-> nextId.post,
                                          published |-> published]}
                        ELSE posts
            /\ nextId' = IF ok THEN [nextId EXCEPT !.post = @ + 1] ELSE nextId
            /\ cmsLast' = Revalidating(Call("createPost", cookie, ok, {}), ok,
                    {Path("/admin/posts", MissingId), Path("/blog", MissingId)})
            /\ HandlerFrame
            /\ UNCHANGED <<comments, messages, responseCache, modLog>>

\* togglePostPublished(id)
TogglePostPublished ==
    \E cookie \in Cookies, id \in PostIds :
        LET ok == AdminGate(cookie) = 200 /\ \E p \in posts : p.id = id
        IN  /\ Gate(cookie)
            /\ posts' = IF ok
                        THEN {IF p.id = id THEN [p EXCEPT !.published = ~p.published]
                              ELSE p : p \in posts}
                        ELSE posts
            /\ cmsLast' = Revalidating(Call("togglePostPublished", cookie, ok, {}), ok,
                    {Path("/admin/posts", MissingId), Path("/blog", MissingId)})
            /\ HandlerFrame
            /\ UNCHANGED <<comments, messages, nextId, responseCache, modLog>>

\* prisma.post.delete: the Comment rows of the post go with it
CommentsAfterPostDelete(id) == {c \in comments : c.postId # id}

\* deletePost(id)
DeletePost ==
    \E cookie \in Cookies, id \in PostIds :
        LET ok == AdminGate(cookie) = 200 /\ \E p \in posts : p.id = id
        IN  /\ Gate(cookie)
            /\ posts' = IF ok THEN {p \in posts : p.id # id} ELSE posts
            /\ comments' = IF ok THEN CommentsAfterPostDelete(id) ELSE comments
            /\ cmsLast' = Revalidating(Call("deletePost", cookie, ok, {}), ok,
                    {Path("/admin/posts", MissingId), Path("/blog", MissingId)})
            /\ HandlerFrame
            /\ UNCHANGED <<messages, nextId, responseCache, modLog>>

\* --- comments: /api/comments and the comment server actions ---

CommentStatuses == {"PENDING", "APPROVED", "REJECTED", "SPAM"}

\* checkSpam: the status chosen from the normalised score
SpamStatus(score) == IF score >= 70 THEN "SPAM" ELSE "PENDING"

Min(a, b) == IF a <= b THEN a ELSE b

\* the score is not normalised to the 0-1 range
ClampScoreOff(score) == score

\* score = Math.min(1, Math.max(0, score))
ClampScore(score) == Min(100, Max(0, score))

\* checkSpam(comment)
CheckSpam(c) ==
    LET length == c.len - c.pad
        short == IF length < 10 THEN 30 ELSE 0
        long == short + (IF length > 2000 THEN 50 ELSE 0)
        linked == long + (IF c.links > 2 THEN 40 + c.links * 10 ELSE 0)
        high == linked + (IF c.high > 0 THEN 60 ELSE 0)
        medium == high + (IF c.medium > 0 THEN c.medium * 15 ELSE 0)
        low == medium + (IF c.low > 0 THEN c.low * 5 ELSE 0)
        format == low + (IF c.email \in {"invalid", "invalidDisposable"} THEN 20 ELSE 0)
        domain == format + (IF c.email \in {"disposable", "invalidDisposable"} THEN 30 ELSE 0)
        caps == domain + (IF c.upper /\ length > 20 THEN 20 ELSE 0)
        named == caps + (IF c.urlName THEN 50 ELSE 0)
        score == ClampScore(named)
    IN  [status |-> SpamStatus(score), score |-> score, flagged |-> score >= 70]

\* a comment that is not spam is stored as approved
NewCommentAutoApproved(id, postId, score) ==
    [id |-> id, postId |-> postId, status |-> SpamStatus(score),
     approved |-> SpamStatus(score) # "SPAM"]

\* POST /api/comments: the row prisma.comment.create stores
NewComment(id, postId, score) ==
    [id |-> id, postId |-> postId, status |-> SpamStatus(score), approved |-> FALSE]

\* a clean comment of 12 characters, and what the rules measure on others
CleanComment == [NoComment EXCEPT !.len = 12]
LinkedComment == [CleanComment EXCEPT !.links = 3]
KeywordComment == [CleanComment EXCEPT !.high = 1, !.low = 1]
SignedWithUrl == [CleanComment EXCEPT !.high = 1, !.urlName = TRUE]

\* request bodies with a well-formed name and content, of any postId: scores
\* 0, 0.65, 0.7 and 1
ValidBodies ==
    [postId : PostIds, nameLen : {3},
     comment : {CleanComment, KeywordComment, LinkedComment, SignedWithUrl}]

\* request bodies {postId, name, email, content} of any kind: content of 9,
\* 10, 2000 and 2001 characters, blank content, content shorter than 10
\* characters once trimmed, any postId, a blank or too long name, a
\* malformed email
CommentBodies ==
    [postId : PostIds, nameLen : {0, 3, 101},
     comment : {[c EXCEPT !.len = l[1], !.pad = l[2], !.email = e] :
                    c \in {CleanComment, SignedWithUrl},
                    l \in {<<3, 3>>, <<9, 0>>, <<10, 0>>, <<12, 3>>, <<2000, 0>>,
                           <<2001, 0>>},
                    e \in {"none", "invalid"}}]

BadRequest(message) == [status |-> 400, message |-> message]

\* the content length is not validated
ValidateBodyAnyLength(body) ==
    IF body.postId = MissingId THEN BadRequest("Post ID is required")
    ELSE IF body.nameLen = 0 THEN BadRequest("Name is required")
    ELSE IF body.nameLen > 100
         THEN BadRequest("Name must be no more than 100 characters")
    ELSE IF body.comment.email \in {"invalid", "invalidDisposable"}
         THEN BadRequest("Invalid email format")
    ELSE IF body.comment.len - body.comment.pad = 0
         THEN BadRequest("Comment content is required")
    ELSE NoResponse

\* POST /api/comments: the validation of the body, in the handler's order;
\* validateLength measures the content as sent, untrimmed
ValidateBody(body) ==
    IF body.postId = MissingId THEN BadRequest("Post ID is required")
    ELSE IF body.nameLen = 0 THEN BadRequest("Name is required")
    ELSE IF body.nameLen > 100
         THEN BadRequest("Name must be no more than 100 characters")
    ELSE IF body.comment.email \in {"invalid", "invalidDisposable"}
         THEN BadRequest("Invalid email format")
    ELSE IF body.comment.len - body.comment.pad = 0
         THEN BadRequest("Comment content is required")
    ELSE IF body.comment.len < 10
         THEN BadRequest("Comment must be at least 10 characters")
    ELSE IF body.comment.len > 2000
         THEN BadRequest("Comment must be no more than 2000 characters")
    ELSE NoResponse

\* POST /api/comments: the 201 response to a stored comment
AcceptedResponse(status) ==
    [status |-> 201,
     message |-> IF status = "SPAM"
                 THEN "Thank you for your comment. It will appear after review."
                 ELSE "Comment submitted successfully. It will appear after approval."]

\* POST /api/comments (public); checkSpam is given the trimmed content
CommentsPOST(bodies) ==
    \E body \in bodies :
        LET invalid == ValidateBody(body)
            found == \E p \in posts : p.id = body.postId
            ok == invalid = NoResponse /\ \E p \in posts : p.id = body.postId /\ p.published
            spam == CheckSpam([body.comment EXCEPT !.len = @ - body.comment.pad, !.pad = 0])
            response ==
                IF invalid # NoResponse THEN invalid
                ELSE IF ~found THEN [status |-> 404, message |-> "Post not found"]
                ELSE IF ~ok THEN BadRequest("Cannot comment on unpublished posts")
                ELSE AcceptedResponse(spam.status)
        IN  /\ ok => nextId.comment <= MaxComments
            /\ comments' = IF ok
                           THEN comments \cup
                                    {NewComment(nextId.comment, body.postId, spam.score)}
                           ELSE comments
            /\ nextId' = IF ok THEN [nextId EXCEPT !.comment = @ + 1] ELSE nextId
            /\ cmsLast' = [Call("POST /api/comments", NoToken, ok,
                                IF ok THEN {nextId.comment} ELSE {})
                               EXCEPT !.request = body, !.response = response,
                                      !.classified = ok]
            /\ HandlerFrame
            /\ UNCHANGED <<sessions, purged, posts, messages, responseCache, modLog>>

\* GET /api/comments: the rows matching `where`
CommentsWhere(postId, includeUnapproved) ==
    {c \in comments : /\ postId # MissingId => c.postId = postId
                      /\ ~includeUnapproved => c.approved}

\* GET /api/comments?postId=&includeUnapproved= (one page holds every row)
CommentsGET ==
    \E cookie \in Cookies, postId \in PostIds, includeUnapproved \in BOOLEAN :
        LET ok == includeUnapproved => AdminGate(cookie) = 200
        IN  /\ IF includeUnapproved THEN Gate(cookie) ELSE UNCHANGED <<sessions, purged>>
            /\ cmsLast' = Call("GET /api/comments", cookie, FALSE,
                               IF ok THEN {c.id : c \in CommentsWhere(postId, includeUnapproved)}
                               ELSE {})
            /\ HandlerFrame
            /\ UNCHANGED <<posts, comments, messages, nextId, responseCache, modLog>>

\* the approved flag is applied after the status
PatchDataApprovedLast(approved, status) ==
    LET valid == status \in CommentStatuses
    IN  [approved |-> IF approved \in {"true", "false"} THEN approved
                      ELSE IF valid /\ status = "APPROVED" THEN "true"
                      ELSE IF valid /\ status \in {"REJECTED", "SPAM"} THEN "false"
                      ELSE Absent,
         status |-> IF approved = "true" THEN "APPROVED"
                    ELSE IF valid THEN status ELSE Absent]

\* PATCH /api/comments: updateData built from the body's approved and status
PatchData(approved, status) ==
    LET a1 == IF approved \in {"true", "false"} THEN approved ELSE Absent
        s1 == IF approved = "true" THEN "APPROVED" ELSE Absent
        valid == status \in CommentStatuses
    IN  [approved |-> IF valid /\ status = "APPROVED" THEN "true"
                      ELSE IF valid /\ status \in {"REJECTED", "SPAM"} THEN "false"
                      ELSE a1,
         status |-> IF valid THEN status ELSE s1]

\* prisma.comment.update({ data }) applied to a row
UpdateComment(c, data) ==
    [c EXCEPT !.approved = IF data.approved = Absent THEN @ ELSE data.approved = "true",
              !.status = IF data.status = Absent THEN @ ELSE data.status]

\* the moderation history after rows ids were updated with data
Moderated(ids, data) ==
    [touched |-> modLog.touched \cup ids,
     approvedSet |-> IF data.approved = "true" THEN modLog.approvedSet \cup ids
                     ELSE modLog.approvedSet]

\* PATCH /api/comments { id, approved, status }: the body is read once the
\* gate has let the request through
CommentsPATCH ==
    \E cookie \in Cookies :
        /\ Gate(cookie)
        /\ HandlerFrame
        /\ UNCHANGED <<posts, messages, nextId, responseCache>>
        /\ IF AdminGate(cookie) # 200
           THEN /\ cmsLast' = [Call("PATCH /api/comments", cookie, FALSE, {})
                                   EXCEPT !.response = [status |-> AdminGate(cookie),
                                                        message |-> ""]]
                /\ UNCHANGED <<comments, modLog>>
           ELSE \E id \in CommentIds, approved \in {Absent, "true", "false"},
                   status \in CommentStatuses \cup {Absent, "BOGUS"} :
                    LET data == PatchData(approved, status)
                        ok == /\ id # MissingId
                              /\ data # [approved |-> Absent, status |-> Absent]
                              /\ \E c \in comments : c.id = id
                    IN  /\ comments' =
                             IF ok
                             THEN {IF c.id = id THEN UpdateComment(c, data) ELSE c :
                                   c \in comments}
                             ELSE comments
                        /\ modLog' = IF ok THEN Moderated({id}, data) ELSE modLog
                        /\ cmsLast' =
                             [Call("PATCH /api/comments", cookie, ok, {})
                                 EXCEPT !.patch = [id |-> id, approved |-> approved,
                                                   status |-> status],
                                        !.response =
                                            IF id = MissingId
                                            THEN BadRequest("Comment ID is required")
                                            ELSE IF data = [approved |-> Absent,
                                                            status |-> Absent]
                                            THEN BadRequest("No valid fields to update")
                                            ELSE [status |-> IF ok THEN 200 ELSE 404,
                                                  message |-> ""]]

\* DELETE /api/comments { id } or { ids }
CommentsDELETE ==
    \E cookie \in Cookies, ids \in SUBSET CommentIds :
        LET ok == AdminGate(cookie) = 200
        IN  /\ Gate(cookie)
            /\ comments' = IF ok THEN {c \in comments : c.id \notin ids} ELSE comments
            /\ cmsLast' = Call("DELETE /api/comments", cookie, comments' # comments, {})
            /\ HandlerFrame
            /\ UNCHANGED <<posts, messages, nextId, responseCache, modLog>>

\* toggleCommentApproval(id)
ToggleCommentApproval ==
    \E cookie \in Cookies, id \in CommentIds :
        LET ok == AdminGate(cookie) = 200 /\ \E c \in comments : c.id = id
            row == CHOOSE c \in comments : c.id = id
            data == [approved |-> IF row.approved THEN "false" ELSE "true",
                     status |-> Absent]
        IN  /\ Gate(cookie)
            /\ comments' = IF ok
                           THEN {IF c.id = id THEN UpdateComment(c, data) ELSE c : c \in comments}
                           ELSE comments
            /\ modLog' = IF ok THEN Moderated({id}, data) ELSE modLog
            /\ cmsLast' = Revalidating(Call("toggleCommentApproval", cookie, ok, {}), ok,
                    {Path("/admin/comments", MissingId)} \cup
                    {Path("/blog/[slug]", p.slug) : p \in {p \in posts : p.id = row.postId}})
            /\ HandlerFrame
            /\ UNCHANGED <<posts, messages, nextId, responseCache>>

\* deleteComment(id)
DeleteComment ==
    \E cookie \in Cookies, id \in CommentIds :
        LET ok == AdminGate(cookie) = 200 /\ \E c \in comments : c.id = id
        IN  /\ Gate(cookie)
            /\ comments' = IF ok THEN {c \in comments : c.id # id} ELSE comments
            /\ cmsLast' = Revalidating(Call("deleteComment", cookie, ok, {}), ok,
                    {Path("/admin/comments", MissingId)})
            /\ HandlerFrame
            /\ UNCHANGED <<posts, messages, nextId, responseCache, modLog>>

\* bulkApproveComments(ids): updateMany({ data: { approved: true } }), no gate
BulkApproveComments ==
    \E cookie \in Cookies, ids \in SUBSET CommentIds :
        LET data == [approved |-> "true", status |-> Absent]
            hit == {c.id : c \in {c \in comments : c.id \in ids}}
        IN  /\ comments' = {IF c.id \in ids THEN UpdateComment(c, data) ELSE c : c \in comments}
            /\ modLog' = Moderated(hit, data)
            /\ cmsLast' = Revalidating(Call("bulkApproveComments", cookie, comments' # comments, {}), TRUE,
                    {Path("/admin/comments", MissingId), Path("/blog", MissingId)})
            /\ HandlerFrame
            /\ UNCHANGED <<sessions, purged, posts, messages, nextId, responseCache>>

InitCms ==
    /\ now = 0
    /\ RateLimitIdle
    /\ AuthInit
    /\ reqs = <<>>
    /\ CmsInit

NextComments ==
    \/ SetupRoute
    \/ Login
    \/ Logout
    \/ CreatePost
    \/ TogglePostPublished
    \/ DeletePost
    \/ CommentsPOST(ValidBodies)
    \/ CommentsGET
    \/ CommentsPATCH
    \/ CommentsDELETE
    \/ ToggleCommentApproval
    \/ DeleteComment
    \/ BulkApproveComments

SpecComments == InitCms /\ [][NextComments]_vars

\* --- contact messages: /api/contact and the message server actions ---

\* POST /api/contact (public)
ContactPOST ==
    /\ nextId.message <= MaxMessages
    /\ messages' = messages \cup {[id |-> nextId.message, read |-> FALSE]}
    /\ nextId' = [nextId EXCEPT !.message = @ + 1]
    /\ cmsLast' = Call("POST /api/contact", NoToken, TRUE, {})
    /\ HandlerFrame
    /\ UNCHANGED <<sessions, purged, posts, comments, responseCache, modLog>>

\* PATCH /api/contact { id, read = true }
ContactPATCH ==
    \E cookie \in Cookies, id \in MessageIds, read \in BOOLEAN :
        LET ok == AdminGate(cookie) = 200 /\ \E m \in messages : m.id = id
        IN  /\ Gate(cookie)
            /\ messages' = IF ok
                           THEN {IF m.id = id THEN [m EXCEPT !.read = read] ELSE m : m \in messages}
                           ELSE messages
            /\ cmsLast' = Call("PATCH /api/contact", cookie, ok, {})
            /\ HandlerFrame
            /\ UNCHANGED <<posts, comments, nextId, responseCache, modLog>>

\* DELETE /api/contact { id }
ContactDELETE ==
    \E cookie \in Cookies, id \in MessageIds :
        LET ok == AdminGate(cookie) = 200 /\ \E m \in messages : m.id = id
        IN  /\ Gate(cookie)
            /\ messages' = IF ok THEN {m \in messages : m.id # id} ELSE messages
            /\ cmsLast' = Call("DELETE /api/contact", cookie, ok, {})
            /\ HandlerFrame
            /\ UNCHANGED <<posts, comments, nextId, responseCache, modLog>>

\* markMessageAsRead(id): no gate
MarkMessageAsRead ==
    \E cookie \in Cookies, id \in MessageIds :
        /\ messages' = {IF m.id = id THEN [m EXCEPT !.read = TRUE] ELSE m : m \in messages}
        /\ cmsLast' = Revalidating(Call("markMessageAsRead", cookie, messages' # messages, {}), \E m \in messages : m.id = id,
                    {Path("/admin/contacts", MissingId)})
        /\ HandlerFrame
        /\ UNCHANGED <<sessions, purged, posts, comments, nextId, responseCache, modLog>>

\* deleteContactMessage(id): no gate
DeleteContactMessage ==
    \E cookie \in Cookies, id \in MessageIds :
        /\ messages' = {m \in messages : m.id # id}
        /\ cmsLast' = Revalidating(Call("deleteContactMessage", cookie, messages' # messages, {}), \E m \in messages : m.id = id,
                    {Path("/admin/contacts", MissingId)})
        /\ HandlerFrame
        /\ UNCHANGED <<sessions, purged, posts, comments, nextId, responseCache, modLog>>

\* the operations that write comments and contact messages
NextModeration ==
    \/ SetupRoute
    \/ Login
    \/ Logout
    \/ CreatePost
    \/ CommentsPOST(ValidBodies)
    \/ CommentsPATCH
    \/ CommentsDELETE
    \/ ToggleCommentApproval
    \/ DeleteComment
    \/ BulkApproveComments
    \/ ContactPOST
    \/ ContactPATCH
    \/ ContactDELETE
    \/ MarkMessageAsRead
    \/ DeleteContactMessage

SpecModeration == InitCms /\ [][NextModeration]_vars

\* --- posts: /api/posts, /api/posts/[slug], /api/admin/posts/[id] ---

CACHE_TTL_MS == 600000

\* the clock advances by half the cache lifetime, at most MaxCacheTicks times
MaxCacheTicks == 2

CacheTick ==
    /\ now + CACHE_TTL_MS \div 2 <= MaxCacheTicks * (CACHE_TTL_MS \div 2)
    /\ now' = now + CACHE_TTL_MS \div 2
    /\ UNCHANGED <<rlVars, authVars, reqs, cmsVars>>

\* `${page}:${limit}:${q || 'all'}` of a request with the default parameters
CacheKey == "1:10:all"

\* responseCache.get(cacheKey) is there and younger than CACHE_TTL_MS
Cached(cache, key, t) ==
    key \in DOMAIN cache /\ t - cache[key].timestamp < CACHE_TTL_MS

\* prisma.post.findMany({ where }): the ids of the rows (one page holds them all)
PostsWhere(includeUnpublished) ==
    {p.id : p \in {p \in posts : includeUnpublished \/ p.published}}

\* GET /api/posts?includeUnpublished=
PostsGET ==
    \E cookie \in Cookies, includeUnpublished \in BOOLEAN :
        LET ok == includeUnpublished => AdminGate(cookie) = 200
            hit == ~includeUnpublished /\ Cached(responseCache, CacheKey, now)
            found == PostsWhere(includeUnpublished)
        IN  /\ IF includeUnpublished THEN Gate(cookie) ELSE UNCHANGED <<sessions, purged>>
            /\ responseCache' =
                 IF ~includeUnpublished /\ ~hit
                 THEN [k \in {CacheKey} |-> [timestamp |-> now, payload |-> found]]
                 ELSE responseCache
            /\ cmsLast' = Call("GET /api/posts", cookie, FALSE,
                               IF ~ok THEN {}
                               ELSE IF hit THEN responseCache[CacheKey].payload
                               ELSE found)
            /\ HandlerFrame
            /\ UNCHANGED <<posts, comments, messages, nextId, modLog>>

\* POST /api/posts { title, content, published = false }
PostsPOST ==
    \E cookie \in Cookies, published \in BOOLEAN :
        LET ok == AdminGate(cookie) = 200
        IN  /\ ok => nextId.post <= MaxPosts
            /\ Gate(cookie)
            /\ posts' = IF ok
                        THEN posts \cup {[id |-> nextId.post, slug |-> nextId.post,
                                          published |-> published]}
                        ELSE posts
            /\ nextId' = IF ok THEN [nextId EXCEPT !.post = @ + 1] ELSE nextId
            /\ responseCache' = IF ok THEN <<>> ELSE responseCache
            /\ cmsLast' = Revalidating(Call("POST /api/posts", cookie, ok, {}), ok /\ published,
                    {Path("/blog", MissingId), Path("/blog/[slug]", nextId.post)})
            /\ HandlerFrame
            /\ UNCHANGED <<comments, messages, modLog>>

\* the response of a handler of /api/posts/[slug]
SlugResponse(gate, found) ==
    [status |-> IF gate # 200 THEN gate ELSE IF ~found THEN 404 ELSE 200, message |-> ""]

\* GET /api/posts/[slug]: an unpublished post is shown to isSessionAdmin() only
PostBySlugGET(key) ==
    \E cookie \in Cookies, slug \in PostIds :
        LET found == {p \in posts : p.slug = slug}
            draft == \E p \in found : ~p.published
            isSessionAdmin == AdminGate(cookie) = 200
            shown == IF draft /\ ~isSessionAdmin THEN {} ELSE found
        IN  /\ UnawaitedRateLimit(key, ReadPreset)
            /\ IF draft THEN Gate(cookie) ELSE UNCHANGED <<sessions, purged>>
            /\ cmsLast' = [Call("GET /api/posts/[slug]", cookie, FALSE,
                                {p.id : p \in shown})
                               EXCEPT !.response = SlugResponse(200, shown # {})]
            /\ LimitedFrame
            /\ UNCHANGED <<posts, comments, messages, nextId, responseCache, modLog>>

\* the body's published field: absent, or a value Boolean() turns into a flag
PublishedFields == {Absent, "true", "false"}

\* prisma.post.update({ data: updateData }) for the published field
UpdatePublished(p, published) ==
    IF published = Absent THEN p ELSE [p EXCEPT !.published = (published = "true")]

\* PATCH /api/posts/[slug]
PostBySlugPATCH(key) ==
    \E cookie \in Cookies, slug \in PostIds, published \in PublishedFields :
        LET found == \E p \in posts : p.slug = slug
            ok == AdminGate(cookie) = 200 /\ found
        IN  /\ UnawaitedRateLimit(key, WritePreset)
            /\ Gate(cookie)
            /\ posts' = IF ok
                        THEN {IF p.slug = slug THEN UpdatePublished(p, published) ELSE p :
                              p \in posts}
                        ELSE posts
            /\ cmsLast' = [Call("PATCH /api/posts/[slug]", cookie, ok, {})
                               EXCEPT !.response = SlugResponse(AdminGate(cookie), found)]
            /\ LimitedFrame
            /\ UNCHANGED <<comments, messages, nextId, responseCache, modLog>>

\* DELETE /api/posts/[slug]
PostBySlugDELETE(key) ==
    \E cookie \in Cookies, slug \in PostIds :
        LET found == \E p \in posts : p.slug = slug
            ok == AdminGate(cookie) = 200 /\ found
        IN  /\ UnawaitedRateLimit(key, WritePreset)
            /\ Gate(cookie)
            /\ posts' = IF ok THEN {p \in posts : p.slug # slug} ELSE posts
            /\ comments' = IF ok THEN CommentsAfterPostDelete(slug) ELSE comments
            /\ cmsLast' = [Call("DELETE /api/posts/[slug]", cookie, ok, {})
                               EXCEPT !.response = SlugResponse(AdminGate(cookie), found)]
            /\ LimitedFrame
            /\ UNCHANGED <<messages, nextId, responseCache, modLog>>

\* GET /api/admin/posts/[id]: no gate, no published test
AdminPostGET ==
    \E cookie \in Cookies, id \in PostIds :
        /\ cmsLast' = Call("GET /api/admin/posts/[id]", cookie, FALSE,
                           {p.id : p \in {p \in posts : p.id = id}})
        /\ HandlerFrame
        /\ UNCHANGED <<sessions, purged, posts, comments, messages, nextId,
                       responseCache, modLog>>

\* PATCH /api/admin/posts/[id]: no gate
AdminPostPATCH ==
    \E cookie \in Cookies, id \in PostIds, published \in PublishedFields :
        LET ok == \E p \in posts : p.id = id
        IN  /\ posts' = {IF p.id = id THEN UpdatePublished(p, published) ELSE p : p \in posts}
            /\ cmsLast' = Call("PATCH /api/admin/posts/[id]", cookie, posts' # posts, {})
            /\ HandlerFrame
            /\ UNCHANGED <<sessions, purged, comments, messages, nextId, responseCache,
                           modLog>>

\* DELETE /api/admin/posts/[id]: no gate
AdminPostDELETE ==
    \E cookie \in Cookies, id \in PostIds :
        LET ok == \E p \in posts : p.id = id
        IN  /\ posts' = {p \in posts : p.id # id}
            /\ comments' = IF ok THEN CommentsAfterPostDelete(id) ELSE comments
            /\ cmsLast' = Call("DELETE /api/admin/posts/[id]", cookie, ok, {})
            /\ HandlerFrame
            /\ UNCHANGED <<sessions, purged, messages, nextId, responseCache, modLog>>

\* updatePost(id, formData): published is the form's checkbox
UpdatePost ==
    \E cookie \in Cookies, id \in PostIds, published \in BOOLEAN :
        LET ok == AdminGate(cookie) = 200 /\ \E p \in posts : p.id = id
        IN  /\ Gate(cookie)
            /\ posts' = IF ok
                        THEN {IF p.id = id THEN [p EXCEPT !.published = published] ELSE p :
                              p \in posts}
                        ELSE posts
            /\ cmsLast' = Revalidating(Call("updatePost", cookie, ok, {}), ok,
                    {Path("/admin/posts", MissingId), Path("/blog", MissingId), Path("/blog/[id]", id)})
            /\ HandlerFrame
            /\ UNCHANGED <<comments, messages, nextId, responseCache, modLog>>

NextPosts ==
    \/ SetupRoute
    \/ Login
    \/ Logout
    \/ CacheTick
    \/ PostsGET
    \/ PostsPOST
    \/ PostBySlugGET(Untracked)
    \/ PostBySlugPATCH(Untracked)
    \/ PostBySlugDELETE(Untracked)
    \/ AdminPostGET
    \/ AdminPostPATCH
    \/ AdminPostDELETE
    \/ CreatePost
    \/ UpdatePost
    \/ DeletePost
    \/ TogglePostPublished

SpecPosts == InitCms /\ [][NextPosts]_vars

\* ------------------------------------------------------------------------
\* C2
\* ------------------------------------------------------------------------

\* the last handler was GET /api/comments called without a valid admin session
PublicCommentsRead == cmsLast.op = "GET /api/comments" /\ ~cmsLast.authorized

\* C2: every comment created by POST /api/comments is stored with
\* approved=false and status PENDING or SPAM whatever its spam score (it stays
\* so until moderation touches it), and a non-admin caller of GET
\* /api/comments is returned only comments on which a moderation operation
\* has set approved=true.
C2_NeverAutoApproved ==
    /\ \A c \in comments :
          c.id \notin modLog.touched => (~c.approved /\ c.status \in {"PENDING", "SPAM"})
    /\ PublicCommentsRead => cmsLast.returned \subseteq modLog.approvedSet

\* a comment scored below the threshold is stored, still unmoderated, and a
\* public listing has just left it out
C2_Witness ==
    /\ PublicCommentsRead
    /\ cmsLast.returned = {}
    /\ \E c \in comments :
          c.id \notin modLog.touched /\ c.status = "PENDING" /\ ~c.approved

\* ------------------------------------------------------------------------
\* C3
\* ------------------------------------------------------------------------

\* C3: in every reachable state each stored comment has approved=true if and
\* only if its status is APPROVED.
C3_ApprovedIffStatus ==
    \A c \in comments : c.approved <=> c.status = "APPROVED"

\* ------------------------------------------------------------------------
\* C4
\* ------------------------------------------------------------------------

\* C4: a comment is returned to a non-admin caller of GET /api/comments only
\* if it is approved and its parent post is published at the time of the read.
C4_PublicNeedsPublishedPost ==
    PublicCommentsRead =>
        \A id \in cmsLast.returned :
            \E c \in comments, p \in posts :
                c.id = id /\ c.approved /\ p.id = c.postId /\ p.published

\* ------------------------------------------------------------------------
\* C6
\* ------------------------------------------------------------------------

ModerationOps ==
    {"PATCH /api/comments", "DELETE /api/comments", "toggleCommentApproval",
     "deleteComment", "bulkApproveComments", "PATCH /api/contact",
     "DELETE /api/contact", "markMessageAsRead", "deleteContactMessage"}

\* C6: no operation that changes a comment's approved/status fields, deletes
\* a comment, or changes the read flag of / deletes a contact message takes
\* effect unless the caller holds a valid admin session.
C6_ModerationNeedsAdmin ==
    (cmsLast.op \in ModerationOps /\ cmsLast.changed) => cmsLast.authorized

\* ------------------------------------------------------------------------
\* C5
\* ------------------------------------------------------------------------

PostWrites ==
    {"POST /api/posts", "PATCH /api/posts/[slug]", "DELETE /api/posts/[slug]",
     "PATCH /api/admin/posts/[id]", "DELETE /api/admin/posts/[id]",
     "createPost", "updatePost", "deletePost", "togglePostPublished"}

\* C5: no operation that creates, updates or deletes a Post takes effect
\* unless the caller holds a valid session whose user is the admin.
C5_PostWritesNeedAdmin ==
    (cmsLast.op \in PostWrites /\ cmsLast.changed) => cmsLast.authorized

\* ------------------------------------------------------------------------
\* C7
\* ------------------------------------------------------------------------

PostReads == {"GET /api/posts", "GET /api/posts/[slug]", "GET /api/admin/posts/[id]"}

\* C7: a caller without an admin session never receives, from a post-reading
\* endpoint, a post whose published flag is currently false or that has been
\* deleted.
C7_PublicSeesOnlyPublished ==
    (cmsLast.op \in PostReads /\ ~cmsLast.authorized) =>
        \A id \in cmsLast.returned : \E p \in posts : p.id = id /\ p.published

\* ------------------------------------------------------------------------
\* POST /api/auth/setup, requests interleaving at their awaits
\* ------------------------------------------------------------------------

\* request bodies: a field that is missing or empty is ""
SetupPayloads ==
    [name : {"", "Owner"}, email : {"", "Admin@X.com", "other@x.com"},
     password : {"", "short", "hunter22"}]

\* the body is validated before the user count is looked at
SetupStatusValidatingFirst(userCount, body) ==
    IF body.name = "" \/ body.email = "" \/ body.password = "" THEN 400
    ELSE IF Len(body.password) < 8 THEN 400
    ELSE IF userCount > 0 THEN 403
    ELSE 200

\* the answer the route settles on before createAdminUser (200: go on)
SetupStatus(userCount, body) ==
    IF userCount > 0 THEN 403
    ELSE IF body.name = "" \/ body.email = "" \/ body.password = "" THEN 400
    ELSE IF Len(body.password) < 8 THEN 400
    ELSE 200

SetupDone(body, seen, status, created) ==
    [pc |-> "done", body |-> body, usersSeen |-> seen, status |-> status,
     created |-> created]

\* await prisma.user.count(), the 403 and the validation of the body
SetupCount(r) ==
    /\ reqs[r].pc \in {"idle", "done"}
    /\ \E body \in SetupPayloads :
          LET seen == Cardinality(users)
              status == SetupStatus(seen, body)
          IN  reqs' = [reqs EXCEPT ![r] =
                  IF status # 200 THEN SetupDone(body, seen, status, FALSE)
                  ELSE [pc |-> "counted", body |-> body, usersSeen |-> seen]]
    /\ UNCHANGED <<now, rlVars, authVars, cmsVars>>

\* createAdminUser: await prisma.user.findUnique({ where: { email } })
SetupFind(r) ==
    /\ reqs[r].pc = "counted"
    /\ LET q == reqs[r]
       IN  reqs' = [reqs EXCEPT ![r] =
               IF FindUser(ToLowerCase(q.body.email)) # NoRow
               THEN SetupDone(q.body, q.usersSeen, 500, FALSE)
               ELSE [pc |-> "checked", body |-> q.body, usersSeen |-> q.usersSeen]]
    /\ UNCHANGED <<now, rlVars, authVars, cmsVars>>

\* createAdminUser: await prisma.user.create (email is a unique column)
SetupCreate(r) ==
    /\ reqs[r].pc = "checked"
    /\ LET q == reqs[r]
           taken == FindUser(ToLowerCase(q.body.email)) # NoRow
       IN  /\ IF taken THEN UNCHANGED users
              ELSE CreateAdminUser(q.body.email, q.body.password)
           /\ reqs' = [reqs EXCEPT ![r] =
                 SetupDone(q.body, q.usersSeen, IF taken THEN 500 ELSE 200, ~taken)]
    /\ UNCHANGED <<now, rlVars, sessions, nextToken, issued, loggedOut, purged,
                   authLast, cmsVars>>

InitSetup ==
    /\ now = 0
    /\ RateLimitIdle
    /\ AuthInit
    /\ reqs = [r \in Reqs |-> IdleRequest]
    /\ CmsInit

NextSetup ==
    \/ \E r \in Reqs : SetupCount(r)
    \/ \E r \in Reqs : SetupFind(r)
    \/ \E r \in Reqs : SetupCreate(r)

SpecSetup == InitSetup /\ [][NextSetup]_vars

\* ------------------------------------------------------------------------
\* C11
\* ------------------------------------------------------------------------

\* C11: once at least one User exists, every call to POST /api/auth/setup
\* (one that finds a user when it counts) returns 403 and creates no user,
\* whatever its payload.
C11_SetupRefusedOnceUserExists ==
    \A r \in Reqs :
        (reqs[r].pc = "done" /\ reqs[r].usersSeen > 0) =>
            (reqs[r].status = 403 /\ ~reqs[r].created)

\* a call with an incomplete body, made when a user exists, was answered
C11_Witness ==
    \E r \in Reqs :
        /\ reqs[r].pc = "done"
        /\ reqs[r].usersSeen > 0
        /\ reqs[r].body.password = ""
        /\ reqs[r].status = 403

\* ------------------------------------------------------------------------
\* C12
\* ------------------------------------------------------------------------

\* C12: the setup flow creates at most one User ever, for any interleaving of
\* concurrently processed setup requests.
C12_AtMostOneUser == Cardinality(users) <= 1

\* ------------------------------------------------------------------------
\* POST /api/auth/login behind the in-memory rate limiter, which it shares
\* with every other rate-limited route
\* ------------------------------------------------------------------------

\* the requests of a run, and the minutes that pass during it
MaxCalls == 7
MaxMinutes == 2

\* POST /api/auth/login { email, password } from identifier ip1
LoginRoute ==
    \E password \in Passwords :
        LET email == ADMIN_EMAIL
            allowed == RateLimitAllows("ip1", AuthPreset)
            ok == allowed /\ LoginOk(email, password)
        IN  /\ Len(reqs) < MaxCalls
            /\ ok => nextToken <= MaxSessions
            /\ CheckRateLimit("ip1", AuthPreset)
            /\ IF allowed THEN LoginWrites(email, password)
               ELSE UNCHANGED <<sessions, issued, nextToken, users>>
            /\ reqs' = Append(reqs,
                 [route |-> "login", at |-> now, correct |-> LoginOk(email, password),
                  status |-> IF ~allowed THEN 429 ELSE IF ok THEN 200 ELSE 401,
                  session |-> ok])
            /\ UNCHANGED <<now, rlPolicy, redisCounters, loggedOut, purged, authLast, cmsVars>>

\* a request of another identifier to a route using rateLimitPresets.read
ReadRoute ==
    /\ Len(reqs) < MaxCalls
    /\ CheckRateLimit("ip2", ReadPreset)
    /\ reqs' = Append(reqs,
         [route |-> "read", at |-> now, correct |-> FALSE,
          status |-> IF RateLimitAllows("ip2", ReadPreset) THEN 200 ELSE 429,
          session |-> FALSE])
    /\ UNCHANGED <<now, rlPolicy, redisCounters, authVars, cmsVars>>

\* a minute passes
MinuteTick ==
    /\ now + 60000 <= MaxMinutes * 60000
    /\ now' = now + 60000
    /\ UNCHANGED <<rlVars, authVars, reqs, cmsVars>>

InitLogin ==
    /\ now = 0
    /\ RateLimitInit
    /\ rlPolicy = AuthPreset
    /\ AuthInit
    /\ reqs = <<>>
    /\ CmsInit

NextLogin == SetupRoute \/ LoginRoute \/ ReadRoute \/ MinuteTick

SpecLogin == InitLogin /\ [][NextLogin]_vars

\* ------------------------------------------------------------------------
\* C13
\* ------------------------------------------------------------------------

\* the login attempts before attempt i that were let through to the
\* credential check less than one auth window before it
ExaminedBefore(i) ==
    {j \in 1..(i - 1) : /\ reqs[j].route = "login"
                        /\ reqs[j].status # 429
                        /\ reqs[i].at - reqs[j].at < AuthPreset.windowMs}

\* C13: after five login attempts from one identifier within 15 minutes, a
\* further attempt within that window is answered 429 whatever the
\* credentials, and creates no session.
C13_SixthLoginRejected ==
    \A i \in 1..Len(reqs) :
        (reqs[i].route = "login" /\ Cardinality(ExaminedBefore(i)) >= AuthPreset.maxRequests)
            => (reqs[i].status = 429 /\ ~reqs[i].session)

\* ------------------------------------------------------------------------
\* checkSpam (lib/spamFilter).  A comment is described by what the rules
\* measure on it: lengths, and the number of matches of each pattern group.
\* Scores are in hundredths.
\* ------------------------------------------------------------------------

\* the largest number of links and of high-severity matches tried
MaxLinks == 4
MaxHighMatches == 3

\* comment.email: undefined, well-formed, malformed, of a disposable domain, both
EmailKinds == {"none", "ok", "invalid", "disposable", "invalidDisposable"}

\* {name, email?, content} as checkSpam sees it: len is content.length, pad
\* the whitespace trim() removes, links the URL_PATTERN matches in content,
\* high / medium / low the SPAM_PATTERNS of each group that match (high: in
\* content or name), upper whether more than 0.7 of the letters are capitals,
\* urlName whether URL_PATTERN matches the name
SpamInputs ==
    [len : {9, 10, 12, 25, 2000, 2001}, pad : {0, 3}, links : {0, 2} \cup 3..MaxLinks,
     high : {0, 1, MaxHighMatches}, medium : {0, 1, 4}, low : {0, 2},
     email : EmailKinds, upper : BOOLEAN, urlName : BOOLEAN]

\* one call of checkSpam on one comment
CheckSpamCall ==
    /\ reqs.pc = "call"
    /\ reqs' = [pc |-> "returned", comment |-> reqs.comment,
                result |-> CheckSpam(reqs.comment)]
    /\ UNCHANGED <<now, rlVars, authVars, cmsVars>>

InitSpam ==
    /\ now = 0
    /\ RateLimitIdle
    /\ AuthInit
    /\ reqs \in [pc : {"call"}, comment : SpamInputs]
    /\ CmsInit

NextSpam == CheckSpamCall

SpecSpam == InitSpam /\ [][NextSpam]_vars

\* ------------------------------------------------------------------------
\* C15
\* ------------------------------------------------------------------------

\* C15: for every comment whose content contains at least three
\* high-severity spam keyword matches, checkSpam returns status SPAM with
\* score >= 0.7, whatever the other rules contribute.
C15_ThreeKeywordsAreSpam ==
    (reqs.pc = "returned" /\ reqs.comment.high >= 3) =>
        (reqs.result.status = "SPAM" /\ reqs.result.score >= 70)

\* ------------------------------------------------------------------------
\* C16
\* ------------------------------------------------------------------------

\* the rules that apply to a comment, each with its penalty
Penalties(c) ==
    {r \in {[rule |-> "too short", applies |-> c.len - c.pad < 10, penalty |-> 30],
            [rule |-> "too long", applies |-> c.len - c.pad > 2000, penalty |-> 50],
            [rule |-> "too many links", applies |-> c.links > 2,
             penalty |-> 40 + c.links * 10],
            [rule |-> "spam keywords", applies |-> c.high > 0, penalty |-> 60],
            [rule |-> "suspicious patterns", applies |-> c.medium > 0,
             penalty |-> c.medium * 15],
            [rule |-> "low-effort patterns", applies |-> c.low > 0, penalty |-> c.low * 5],
            [rule |-> "invalid email", penalty |-> 20,
             applies |-> c.email \in {"invalid", "invalidDisposable"}],
            [rule |-> "disposable email", penalty |-> 30,
             applies |-> c.email \in {"disposable", "invalidDisposable"}],
            [rule |-> "capitals", applies |-> c.upper /\ c.len - c.pad > 20, penalty |-> 20],
            [rule |-> "url in name", applies |-> c.urlName, penalty |-> 50]} : r.applies}

RECURSIVE SumPenalties(_)
SumPenalties(rules) ==
    IF rules = {} THEN 0
    ELSE LET r == CHOOSE r \in rules : TRUE
         IN  r.penalty + SumPenalties(rules \ {r})

\* C16: checkSpam returns a score equal to the sum of the penalties of the
\* rules that apply, clamped to [0,1], a status that is SPAM exactly when
\* that score is >= 0.7 and PENDING otherwise (never APPROVED or REJECTED),
\* and flagged exactly when the status is SPAM.
C16_ScoreIsClampedSum ==
    reqs.pc = "returned" =>
        LET sum == SumPenalties(Penalties(reqs.comment))
            res == reqs.result
        IN  /\ res.score = (IF sum > 100 THEN 100 ELSE sum)
            /\ res.status = (IF res.score >= 70 THEN "SPAM" ELSE "PENDING")
            /\ res.flagged <=> res.status = "SPAM"

\* a comment whose penalties add up to more than 1 was scored 1, and one
\* whose penalties add up to exactly 0.7 was classified SPAM
C16_Witness ==
    /\ reqs.pc = "returned"
    /\ SumPenalties(Penalties(reqs.comment)) = 70
    /\ reqs.result.status = "SPAM"

\* ------------------------------------------------------------------------
\* Comment submission: POST /api/comments with request bodies of any kind,
\* on posts an administrator creates and publishes.
\* ------------------------------------------------------------------------

NextSubmit ==
    \/ SetupRoute
    \/ Login
    \/ CreatePost
    \/ TogglePostPublished
    \/ CommentsPOST(CommentBodies)

SpecSubmit == InitCms /\ [][NextSubmit]_vars

\* ------------------------------------------------------------------------
\* C14
\* ------------------------------------------------------------------------

\* C14: the response of POST /api/comments to an accepted submission (status
\* code and message) is the same whether the comment was classified SPAM or
\* PENDING: every accepted submission gets the response a PENDING one gets.
C14_ResponseHidesClassification ==
    (cmsLast.op = "POST /api/comments" /\ cmsLast.changed) =>
        cmsLast.response = AcceptedResponse("PENDING")

\* ------------------------------------------------------------------------
\* C17
\* ------------------------------------------------------------------------

ContentOutOfRange(body) == body.comment.len < 10 \/ body.comment.len > 2000

\* C17: every POST /api/comments whose content has fewer than 10 or more
\* than 2000 characters is answered 400, stores no comment, and does not
\* invoke the spam classifier.
C17_OutOfRangeContentRejected ==
    [][(cmsLast'.op = "POST /api/comments" /\ ContentOutOfRange(cmsLast'.request)) =>
           /\ cmsLast'.response.status = 400
           /\ ~cmsLast'.classified
           /\ comments' = comments
           /\ nextId' = nextId]_vars

\* a submission to a published post whose only fault is a content of 2001
\* characters was answered 400, and one of 9 characters as well
C17_Witness ==
    /\ cmsLast.op = "POST /api/comments"
    /\ cmsLast.request.comment.len \in {9, 2001}
    /\ cmsLast.request.comment.email = "none"
    /\ cmsLast.request.nameLen = 3
    /\ \E p \in posts : p.id = cmsLast.request.postId /\ p.published
    /\ cmsLast.response.status = 400
    /\ comments = {}

\* ------------------------------------------------------------------------
\* /api/posts/[slug] with the limiter's store: one identifier calls GET,
\* PATCH and DELETE within one window.
\* ------------------------------------------------------------------------

NextSlug ==
    \/ SetupRoute
    \/ Login
    \/ CreatePost
    \/ PostBySlugGET("ip1")
    \/ PostBySlugPATCH("ip1")
    \/ PostBySlugDELETE("ip1")

SpecSlug == InitCms /\ [][NextSlug]_vars

\* ------------------------------------------------------------------------
\* C18
\* ------------------------------------------------------------------------

SlugOps == {"GET /api/posts/[slug]", "PATCH /api/posts/[slug]", "DELETE /api/posts/[slug]"}

\* C18: a call to GET, PATCH or DELETE /api/posts/[slug] for which the rate
\* limiter decided that the identifier has exhausted the quota of the
\* endpoint's preset is answered 429, returns no post and changes none.
C18_SlugRoutesRateLimited ==
    (cmsLast.op \in SlugOps /\ ~rlResult.allowed) =>
        /\ cmsLast.response.status = 429
        /\ cmsLast.returned = {}
        /\ ~cmsLast.changed

\* ------------------------------------------------------------------------
\* Rate limiter with the external store (redis configured): the bucketed
\* counter of checkRateLimit.  Each call is also given to the in-memory
\* variant, so that the decisions of the two can be compared.
\* ------------------------------------------------------------------------

\* the calls of a run
MaxRedisCalls == 5

\* what can go wrong in a call: the INCR command is lost, the INCR command
\* is applied and its reply lost, the PEXPIRE command fails
RedisFaults == {"none", "incr lost", "incr applied", "pexpire"}

\* `ratelimit:${key}:${bucket}` with bucket = Math.floor(now / windowMs)
RedisKey(key, windowMs, t) == <<key, t \div windowMs>>

\* the value of a counter that exists and has not expired, 0 otherwise
RedisCount(counters, rk, t) ==
    IF rk \in DOMAIN counters /\ (counters[rk].expires => counters[rk].expireAt > t)
    THEN counters[rk].count
    ELSE 0

\* INCR: a missing or expired key starts from 0 without expiry
RedisIncr(counters, rk, t) ==
    [k \in DOMAIN counters \cup {rk} |->
        IF k # rk THEN counters[k]
        ELSE IF RedisCount(counters, rk, t) = 0
             THEN [count |-> 1, expires |-> FALSE, expireAt |-> 0]
             ELSE [counters[rk] EXCEPT !.count = @ + 1]]

\* PEXPIRE key ms
RedisPexpire(counters, rk, t, ms) ==
    [counters EXCEPT ![rk] = [@ EXCEPT !.expires = TRUE, !.expireAt = t + ms]]

\* checkRateLimit, redis branch: the counters it leaves, and whether it
\* threw or what it decided
CheckRateLimitRedis(key, cfg, fault) ==
    LET rk == RedisKey(key, cfg.windowMs, now)
        incremented == IF fault = "incr lost" THEN redisCounters
                       ELSE RedisIncr(redisCounters, rk, now)
        count == RedisCount(incremented, rk, now)
    IN  IF fault \in {"incr lost", "incr applied"}
        THEN [counters |-> incremented, threw |-> TRUE, allowed |-> FALSE]
        ELSE IF count = 1 /\ fault = "pexpire"
        THEN [counters |-> incremented, threw |-> TRUE, allowed |-> FALSE]
        ELSE [counters |-> IF count = 1
                           THEN RedisPexpire(incremented, rk, now, cfg.windowMs)
                           ELSE incremented,
              threw |-> FALSE,
              allowed |-> ~(count > cfg.maxRequests)]

\* a request of ip1 to a handler that awaits rateLimitMiddleware inside its
\* try block (POST /api/comments): an error thrown by the limiter is answered
\* by handleError, a refusal with 429, and otherwise the handler runs
RedisLimitedCall ==
    \E fault \in RedisFaults :
        LET res == CheckRateLimitRedis("ip1", rlPolicy, fault)
        IN  /\ Len(reqs) < MaxRedisCalls
            /\ redisCounters' = res.counters
            /\ CheckRateLimit("ip1", rlPolicy)
            /\ reqs' = Append(reqs,
                 [at |-> now, fault |-> fault,
                  redis |-> IF res.threw THEN "throw"
                            ELSE IF res.allowed THEN "admit" ELSE "reject",
                  memory |-> IF RateLimitAllows("ip1", rlPolicy) THEN "admit" ELSE "reject",
                  status |-> IF res.threw THEN 500 ELSE IF res.allowed THEN 200 ELSE 429])
            /\ UNCHANGED <<now, rlPolicy, authVars, cmsVars>>

\* no counter exists yet; the calls are made under rateLimitPresets.comment
InitRedis ==
    /\ now = 0
    /\ RateLimitInit
    /\ rlPolicy = CommentPreset
    /\ AuthInit
    /\ reqs = <<>>
    /\ CmsInit

NextRedis == RedisLimitedCall \/ Tick

SpecRedis == InitRedis /\ [][NextRedis]_vars

\* ------------------------------------------------------------------------
\* C19
\* ------------------------------------------------------------------------

\* C19: when the increment call of the external store fails, the call is
\* treated as admitted and the request goes on to its handler instead of
\* ending in an error response.
C19_FailOpen ==
    \A i \in 1..Len(reqs) :
        reqs[i].fault \in {"incr lost", "incr applied"} =>
            (reqs[i].redis = "admit" /\ reqs[i].status = 200)

\* ------------------------------------------------------------------------
\* C20
\* ------------------------------------------------------------------------

\* C20: for the same policy and the same timestamped sequence of calls from
\* one identifier, none of which met a failure of the store, the
\* external-store variant and the in-memory variant return the same
\* admit/reject decision for every call.
C20_BackendsAgree ==
    \A i \in 1..Len(reqs) :
        (\A j \in 1..i : reqs[j].fault = "none") => reqs[i].redis = reqs[i].memory

\* ------------------------------------------------------------------------
\* C21
\* ------------------------------------------------------------------------

CommentModerationOps == {"PATCH /api/comments", "toggleCommentApproval", "bulkApproveComments"}

\* C21: every moderation change to a comment made by PATCH /api/comments,
\* toggleCommentApproval or bulkApproveComments comes with revalidatePath of
\* the page /blog/<slug> of the comment's parent post before the handler
\* returns.
C21_ModerationInvalidatesPostPage ==
    [][(cmsLast'.op \in CommentModerationOps /\ comments' # comments) =>
           \A c \in comments \ comments', p \in posts :
               p.id = c.postId => Path("/blog/[slug]", p.slug) \in cmsLast'.revalidated]_vars

\* ------------------------------------------------------------------------
\* C22
\* ------------------------------------------------------------------------

\* C22: after a PATCH /api/comments that the gate let through and that was
\* answered 200, carrying status S in {APPROVED, REJECTED, SPAM} with or
\* without an approved boolean, the stored comment has status S and
\* approved = (S = APPROVED); a body whose approved is no boolean and whose
\* status is none of the accepted ones is answered 400 and changes no
\* comment.
C22_StatusNormalised ==
    [][(cmsLast'.op = "PATCH /api/comments" /\ cmsLast'.authorized) =>
           LET body == cmsLast'.patch
           IN  /\ (body.status \in {"APPROVED", "REJECTED", "SPAM"}
                      /\ cmsLast'.response.status = 200) =>
                     \E c \in comments' : /\ c.id = body.id
                                          /\ c.status = body.status
                                          /\ c.approved = (body.status = "APPROVED")
               /\ (body.approved = Absent /\ body.status \notin CommentStatuses) =>
                     (cmsLast'.response.status = 400 /\ comments' = comments)]_vars

\* a PATCH with { approved: true, status: "SPAM" } was answered 200 and left
\* the comment SPAM and unapproved
C22_Witness ==
    /\ cmsLast.op = "PATCH /api/comments"
    /\ cmsLast.patch.approved = "true"
    /\ cmsLast.patch.status = "SPAM"
    /\ cmsLast.response.status = 200
    /\ \E c \in comments : c.id = cmsLast.patch.id /\ c.status = "SPAM" /\ ~c.approved

\* ------------------------------------------------------------------------
\* Login of users whose hash was stored in the legacy format.
\* ------------------------------------------------------------------------

\* the admin's row was created before bcrypt was introduced
InitRehash ==
    /\ now = 0
    /\ RateLimitIdle
    /\ \E password \in Passwords :
          users = {[id |-> 1, email |-> ToLowerCase(ADMIN_EMAIL),
                    passwordHash |-> LegacyHash(password)]}
    /\ sessions = {}
    /\ nextToken = 1
    /\ issued = <<>>
    /\ loggedOut = {}
    /\ purged = {}
    /\ authLast = [op |-> NoValue]
    /\ reqs = <<>>
    /\ CmsInit

NextRehash == Login \/ Logout \/ GetSession \/ DayTick

SpecRehash == InitRehash /\ [][NextRehash]_vars

\* ------------------------------------------------------------------------
\* C23
\* ------------------------------------------------------------------------

\* C23: verifyPassword accepts the bcrypt and the legacy format, and when a
\* login succeeds (a session is created) for a user whose hash is in the
\* legacy format, the hash stored when login returns is in the current
\* format and verifies the password that was used, without asking for
\* another rehash.
C23_RehashOnLogin ==
    /\ \A pw \in Passwords : /\ VerifyPassword(pw, HashPassword(pw)).valid
                             /\ VerifyPassword(pw, LegacyHash(pw)).valid
    /\ [][\A u \in users :
              (u.passwordHash.fmt = "legacy"
                  /\ \E row \in sessions' \ sessions : row.userId = u.id) =>
                  \E v \in users' :
                      /\ v.id = u.id
                      /\ v.passwordHash.fmt = "bcrypt"
                      /\ \A pw \in Passwords :
                            VerifyPassword(pw, u.passwordHash).valid =>
                                VerifyPassword(pw, v.passwordHash) =
                                    [valid |-> TRUE, needsRehash |-> FALSE]]_vars

\* the user's 73-byte password was rehashed and a second login with it
\* succeeded
C23_Witness ==
    /\ \E u \in users : /\ u.passwordHash.fmt = "bcrypt"
                        /\ u.passwordHash.of = "72 bytes"
    /\ Cardinality(sessions) = 2

\* ------------------------------------------------------------------------
\* Post creation with its slug: POST /api/posts and createPost of an
\* administrator, requests interleaving at their awaits.
\* ------------------------------------------------------------------------

\* the posts a run creates
MaxSlugPosts == 3

Titles == {"Hello World", "Hello World!", "Post", "Post 2"}

\* slugify(text) on the titles of the model
Slugify(title) ==
    CASE title = "Hello World" -> "hello-world"
      [] title = "Hello World!" -> "hello-world"
      [] title = "Post" -> "post"
      [] title = "Post 2" -> "post-2"

\* `${baseSlug}-${counter}`
Suffixed(baseSlug, counter) == baseSlug \o "-" \o ToString(counter)

\* the callback given to generateUniqueSlug: prisma.post.findUnique({ where: { slug } })
SlugExists(slug) == \E p \in posts : p.slug = slug

\* generateUniqueSlug(title, checkExists) up to its first await
SlugBegin(r) ==
    /\ reqs[r].pc \in {"idle", "done"}
    /\ \E title \in Titles :
          reqs' = [reqs EXCEPT ![r] = [pc |-> "checking", title |-> title,
                                       slug |-> Slugify(title), counter |-> 2]]
    /\ UNCHANGED <<now, rlVars, authVars, cmsVars>>

\* one turn of `while (await checkExists(slug))`
SlugCheck(r) ==
    /\ reqs[r].pc = "checking"
    /\ LET q == reqs[r]
       IN  reqs' = [reqs EXCEPT ![r] =
               IF SlugExists(q.slug)
               THEN [q EXCEPT !.slug = Suffixed(Slugify(q.title), q.counter),
                              !.counter = @ + 1]
               ELSE [q EXCEPT !.pc = "creating"]]
    /\ UNCHANGED <<now, rlVars, authVars, cmsVars>>

\* prisma.$transaction: tx.post.create with the slug found; slug is a unique
\* column, and a second row with it is refused (409 by handleError)
SlugCreate(r) ==
    /\ reqs[r].pc = "creating"
    /\ LET q == reqs[r]
           taken == SlugExists(q.slug)
       IN  /\ ~taken => nextId.post <= MaxSlugPosts
           /\ posts' = IF taken THEN posts
                       ELSE posts \cup {[id |-> nextId.post, title |-> q.title,
                                         slug |-> q.slug, published |-> FALSE]}
           /\ nextId' = IF taken THEN nextId ELSE [nextId EXCEPT !.post = @ + 1]
           /\ reqs' = [reqs EXCEPT ![r] =
                 [pc |-> "done", title |-> q.title, slug |-> q.slug,
                  counter |-> q.counter, status |-> IF taken THEN 409 ELSE 201]]
    /\ UNCHANGED <<now, rlVars, authVars, comments, messages, responseCache, modLog,
                   postImages, appCache, cmsLast>>

NextSlugs ==
    \/ \E r \in Reqs : SlugBegin(r)
    \/ \E r \in Reqs : SlugCheck(r)
    \/ \E r \in Reqs : SlugCreate(r)

SpecSlugs == InitSetup /\ [][NextSlugs]_vars

\* ------------------------------------------------------------------------
\* C24
\* ------------------------------------------------------------------------

PostsTitled(title) == {p \in posts : p.title = title}

\* C24: every creation stores its post; of the posts stored with one title
\* the first has the slug slugify(title) and each later one that slug with a
\* numeric suffix; and no two stored posts share a slug.
C24_UniqueSlugs ==
    /\ \A r \in Reqs : reqs[r].pc = "done" => reqs[r].status = 201
    /\ \A p \in posts :
          IF \A q \in PostsTitled(p.title) : p.id <= q.id
          THEN p.slug = Slugify(p.title)
          ELSE \E n \in 2..(MaxSlugPosts + 1) : p.slug = Suffixed(Slugify(p.title), n)
    /\ \A p, q \in posts : p.id # q.id => p.slug # q.slug

\* ------------------------------------------------------------------------
\* Post update with image-reference resync (updatePost, PATCH /api/posts/[slug],
\* the admin PATCH): prisma.$transaction over post.update, postImage.deleteMany
\* and postImage.createMany, with readers of the committed rows
\* ------------------------------------------------------------------------

\* Markdown content as its tokens: text, a link [text](url), an image ![alt](url)
Text == [kind |-> "text", url |-> ""]

Link(url) == [kind |-> "link", url |-> url]

Image(url) == [kind |-> "image", url |-> url]

Contents ==
    { <<Text>>,
      <<Image("a.jpg"), Text, Image("b.jpg")>>,
      <<Link("a.jpg"), Image("b.jpg"), Image("c.jpg")>>,
      <<Image("a.jpg"), Image("a.jpg")>> }

\* extractImageUrls: the url of every image token, in order, duplicates kept
RECURSIVE ExtractImageUrls(_)
ExtractImageUrls(markdown) ==
    IF markdown = <<>> THEN <<>>
    ELSE IF Head(markdown).kind = "image"
         THEN <<Head(markdown).url>> \o ExtractImageUrls(Tail(markdown))
         ELSE ExtractImageUrls(Tail(markdown))

\* imageUrls.map((url) => ({ postId: id, url })): one row per url of the list
ImageRows(id, urls) == {[postId |-> id, url |-> urls[i], n |-> i] : i \in DOMAIN urls}

ImagePostIds == {1, 2}

NoTx == [pc |-> "idle", id |-> 0, content |-> <<>>, writes |-> <<>>]

\* the transactions that hold the row lock of post id
InTx(id) == {r \in Reqs : reqs[r].pc # "idle" /\ reqs[r].id = id}

\* the committed content of post id
ContentOf(id) == (CHOOSE p \in posts : p.id = id).content

\* a statement's effect on the committed PostImage rows
ApplyWrite(rows, w) ==
    IF w.op = "deleteMany" THEN {x \in rows : x.postId # w.postId}
    ELSE rows \cup w.rows

RECURSIVE ApplyWrites(_, _)
ApplyWrites(rows, ws) ==
    IF ws = <<>> THEN rows ELSE ApplyWrites(ApplyWrite(rows, Head(ws)), Tail(ws))

\* a statement issued through the transaction client tx takes effect at the
\* commit; one issued through the global client prisma takes effect at once
Issue(client, r, w, pc) ==
    IF client = "tx"
    THEN /\ reqs' = [reqs EXCEPT ![r].writes = Append(@, w), ![r].pc = pc]
         /\ UNCHANGED postImages
    ELSE /\ reqs' = [reqs EXCEPT ![r].pc = pc]
         /\ postImages' = ApplyWrite(postImages, w)

ImagesFrame == UNCHANGED <<now, rlVars, authVars, comments, messages, nextId,
                           responseCache, modLog, appCache>>

\* tx.post.update({ where: { id }, data: { content, ... } }): the first
\* statement of the transaction; it waits while another transaction holds the
\* lock of the row
TxPostUpdate(r) ==
    /\ reqs[r].pc = "idle"
    /\ \E id \in ImagePostIds, content \in Contents :
          /\ InTx(id) = {}
          /\ reqs' = [reqs EXCEPT ![r] =
                [pc |-> "updated", id |-> id, content |-> content, writes |-> <<>>]]
    /\ UNCHANGED <<posts, postImages, cmsLast>>
    /\ ImagesFrame

PostImageDeleteMany(client, r) ==
    /\ reqs[r].pc = "updated"
    /\ Issue(client, r, [op |-> "deleteMany", postId |-> reqs[r].id, rows |-> {}], "deleted")
    /\ UNCHANGED <<posts, cmsLast>>
    /\ ImagesFrame

TxDeleteManyOutside(r) == PostImageDeleteMany("prisma", r)

\* await tx.postImage.deleteMany({ where: { postId: id } })
TxDeleteMany(r) == PostImageDeleteMany("tx", r)

\* if (imageUrls.length > 0) await tx.postImage.createMany({ data: ... })
TxCreateMany(r) ==
    /\ reqs[r].pc = "deleted"
    /\ LET urls == ExtractImageUrls(reqs[r].content) IN
          IF Len(urls) > 0
          THEN Issue("tx", r, [op |-> "createMany", postId |-> reqs[r].id,
                               rows |-> ImageRows(reqs[r].id, urls)], "created")
          ELSE /\ reqs' = [reqs EXCEPT ![r].pc = "created"]
               /\ UNCHANGED postImages
    /\ UNCHANGED <<posts, cmsLast>>
    /\ ImagesFrame

\* the callback of prisma.$transaction returns: the writes are committed
TxCommit(r) ==
    /\ reqs[r].pc = "created"
    /\ posts' = {IF p.id = reqs[r].id THEN [p EXCEPT !.content = reqs[r].content] ELSE p
                    : p \in posts}
    /\ postImages' = ApplyWrites(postImages, reqs[r].writes)
    /\ reqs' = [reqs EXCEPT ![r] = NoTx]
    /\ UNCHANGED cmsLast
    /\ ImagesFrame

\* a statement throws or the transaction times out: nothing is committed
TxRollback(r) ==
    /\ reqs[r].pc # "idle"
    /\ reqs' = [reqs EXCEPT ![r] = NoTx]
    /\ UNCHANGED <<posts, postImages, cmsLast>>
    /\ ImagesFrame

\* a reader outside the transactions: include: { images: ... } of a post
ReadImages(id) ==
    /\ cmsLast' = [IdleCall EXCEPT !.op = "readImages", !.changed = id,
                                   !.returned = {x \in postImages : x.postId = id}]
    /\ UNCHANGED <<posts, postImages, reqs>>
    /\ ImagesFrame

\* the posts were created with their image rows (createPost's transaction)
InitImages ==
    /\ now = 0
    /\ RateLimitIdle
    /\ AuthInit
    /\ reqs = [r \in Reqs |-> NoTx]
    /\ \E c \in [ImagePostIds -> Contents] :
          /\ posts = {[id |-> id, content |-> c[id]] : id \in ImagePostIds}
          /\ postImages = UNION {ImageRows(id, ExtractImageUrls(c[id])) : id \in ImagePostIds}
    /\ comments = {}
    /\ messages = {}
    /\ nextId = [post |-> 3, comment |-> 1, message |-> 1]
    /\ responseCache = <<>>
    /\ modLog = [touched |-> {}, approvedSet |-> {}]
    /\ appCache = <<>>
    /\ cmsLast = IdleCall

NextImages ==
    \/ \E r \in Reqs : TxPostUpdate(r)
    \/ \E r \in Reqs : TxDeleteMany(r)
    \/ \E r \in Reqs : TxCreateMany(r)
    \/ \E r \in Reqs : TxCommit(r)
    \/ \E r \in Reqs : TxRollback(r)
    \/ \E id \in ImagePostIds : ReadImages(id)

SpecImages == InitImages /\ [][NextImages]_vars

\* ------------------------------------------------------------------------
\* C25
\* ------------------------------------------------------------------------

\* C25: a reader of a post's PostImage rows gets the complete set of the
\* committed content or the complete set of the content an update in progress
\* is writing, never the rows as they are between the delete and the insert.
C25_ResyncAtomic ==
    [][\A id \in ImagePostIds :
          ReadImages(id) =>
             cmsLast'.returned \in
                {ImageRows(id, ExtractImageUrls(ContentOf(id)))} \cup
                {ImageRows(id, ExtractImageUrls(reqs[r].content)) : r \in InTx(id)}]_vars

\* a read of a post with images while an update that writes other images is
\* between its deleteMany and its createMany
C25_Witness ==
    /\ cmsLast.op = "readImages"
    /\ cmsLast.returned # {}
    /\ \E r \in InTx(cmsLast.changed) :
          /\ reqs[r].pc = "deleted"
          /\ ExtractImageUrls(reqs[r].content) # <<>>
          /\ ImageRows(reqs[r].id, ExtractImageUrls(reqs[r].content)) # cmsLast.returned

\* ------------------------------------------------------------------------
\* sanitizeComment on its own. A string is the sequence of its symbols; "s"
\* stands for the word script, which is also the only letter run.
\* ------------------------------------------------------------------------

MaxContentLen == 7

Symbols == {"<", ">", "/", "s", " ", "\n"}

Whitespace == {" ", "\n"}

\* the strings of up to n symbols
SanitizeInputs(n) == UNION {[1..k -> Symbols] : k \in 0..n}

At(x, i) == IF i \in DOMAIN x THEN x[i] ELSE ""

\* the least j >= i where </script> begins, 0 when there is none
RECURSIVE CloseScriptFrom(_, _)
CloseScriptFrom(x, i) ==
    IF i + 3 > Len(x) THEN 0
    ELSE IF x[i] = "<" /\ x[i + 1] = "/" /\ x[i + 2] = "s" /\ x[i + 3] = ">" THEN i
    ELSE CloseScriptFrom(x, i + 1)

\* /<script\b[^<]*(?:(?!<\/script>)<[^<]*)*<\/script>/ tried at i: the index of
\* the last symbol of the match, 0 when it does not match. The match runs from
\* <script at a word boundary to the first </script> after it.
ScriptMatch(x, i) ==
    IF At(x, i) = "<" /\ At(x, i + 1) = "s" /\ At(x, i + 2) # "s"
    THEN LET j == CloseScriptFrom(x, i + 2) IN IF j = 0 THEN 0 ELSE j + 3
    ELSE 0

\* the least j >= i with x[j] = ">", 0 when there is none
RECURSIVE NextGt(_, _)
NextGt(x, i) ==
    IF i > Len(x) THEN 0 ELSE IF x[i] = ">" THEN i ELSE NextGt(x, i + 1)

\* /<[^>]+>/ tried at i
TagMatch(x, i) ==
    IF At(x, i) = "<" /\ i + 1 <= Len(x) /\ At(x, i + 1) # ">"
    THEN NextGt(x, i + 2)
    ELSE 0

\* .replace(/<script...<\/script>/gi, ''): matches are taken left to right
RECURSIVE RemoveScripts(_, _)
RemoveScripts(x, i) ==
    IF i > Len(x) THEN <<>>
    ELSE IF ScriptMatch(x, i) # 0 THEN RemoveScripts(x, ScriptMatch(x, i) + 1)
    ELSE <<x[i]>> \o RemoveScripts(x, i + 1)

\* .replace(/<[^>]+>/g, '')
RECURSIVE RemoveTags(_, _)
RemoveTags(x, i) ==
    IF i > Len(x) THEN <<>>
    ELSE IF TagMatch(x, i) # 0 THEN RemoveTags(x, TagMatch(x, i) + 1)
    ELSE <<x[i]>> \o RemoveTags(x, i + 1)

\* .replace(/\s+/g, ' ')
RECURSIVE NormalizeWhitespace(_, _)
NormalizeWhitespace(x, i) ==
    IF i > Len(x) THEN <<>>
    ELSE IF x[i] \in Whitespace
         THEN IF At(x, i + 1) \in Whitespace THEN NormalizeWhitespace(x, i + 1)
              ELSE <<" ">> \o NormalizeWhitespace(x, i + 1)
    ELSE <<x[i]>> \o NormalizeWhitespace(x, i + 1)

\* .trim()
RECURSIVE Trim(_)
Trim(x) ==
    IF x = <<>> THEN x
    ELSE IF Head(x) \in Whitespace THEN Trim(Tail(x))
    ELSE IF x[Len(x)] \in Whitespace THEN Trim(SubSeq(x, 1, Len(x) - 1))
    ELSE x

SanitizeCommentSpacesFirst(content) ==
    RemoveTags(RemoveScripts(Trim(NormalizeWhitespace(content, 1)), 1), 1)

SanitizeComment(content) ==
    Trim(NormalizeWhitespace(RemoveTags(RemoveScripts(content, 1), 1), 1))

NoSanitize == [pc |-> "idle", content |-> <<>>, once |-> <<>>, twice |-> <<>>]

\* sanitizeComment(content) of a content of any kind
SanitizeCall ==
    /\ reqs.pc = "idle"
    /\ \E content \in SanitizeInputs(MaxContentLen) :
          reqs' = [pc |-> "once", content |-> content,
                   once |-> SanitizeComment(content), twice |-> <<>>]
    /\ UNCHANGED <<now, rlVars, authVars, cmsVars>>

\* sanitizeComment of what the first call returned
SanitizeAgain ==
    /\ reqs.pc = "once"
    /\ reqs' = [reqs EXCEPT !.pc = "twice", !.twice = SanitizeComment(reqs.once)]
    /\ UNCHANGED <<now, rlVars, authVars, cmsVars>>

InitSanitize ==
    /\ now = 0
    /\ RateLimitIdle
    /\ AuthInit
    /\ reqs = NoSanitize
    /\ CmsInit

NextSanitize == SanitizeCall \/ SanitizeAgain

SpecSanitize == InitSanitize /\ [][NextSanitize]_vars

\* ------------------------------------------------------------------------
\* C26
\* ------------------------------------------------------------------------

\* C26: sanitizeComment applied to its own result returns that result.
C26_SanitizeIdempotent == reqs.pc = "twice" => reqs.twice = reqs.once

\* a content sanitized twice whose script element the first call removed, the
\* removal of the tags alone leaving more of it
C26_Witness ==
    /\ reqs.pc = "twice"
    /\ \E i \in DOMAIN reqs.content : ScriptMatch(reqs.content, i) # 0
    /\ RemoveTags(reqs.content, 1) # RemoveTags(RemoveScripts(reqs.content, 1), 1)

\* ------------------------------------------------------------------------
\* checkRateLimit with the external store, call by call: each await is a step
\* of its own, and the clock and the other calls move between the steps
\* ------------------------------------------------------------------------

NumRedisCallers == 3

RedisCallers == 1..NumRedisCallers

NoRedisCall == [pc |-> "idle", at |-> 0, count |-> 0, allowed |-> FALSE]

CallerFrame == UNCHANGED <<now, requestStore, lastCleanup, rlPolicy, rlAdmitted, rlResult,
                           authVars, cmsVars>>

\* const now = Date.now(); const bucket = Math.floor(now / windowMs)
RedisBegin(r) ==
    /\ reqs[r].pc = "idle"
    /\ reqs' = [reqs EXCEPT ![r] = [@ EXCEPT !.pc = "incr", !.at = now]]
    /\ UNCHANGED redisCounters
    /\ CallerFrame

\* const count = await redis.incr(redisKey): the store applies the command at
\* its own time; a count other than 1 is decided on at once
RedisIncrStep(r) ==
    /\ reqs[r].pc = "incr"
    /\ LET rk == RedisKey("ip1", rlPolicy.windowMs, reqs[r].at)
           incremented == RedisIncr(redisCounters, rk, now)
           count == RedisCount(incremented, rk, now)
       IN  /\ redisCounters' = incremented
           /\ reqs' = [reqs EXCEPT ![r] =
                 [pc |-> IF count = 1 THEN "pexpire" ELSE "done", at |-> reqs[r].at,
                  count |-> count, allowed |-> ~(count > rlPolicy.maxRequests)]]
    /\ CallerFrame

\* if (count === 1) await redis.pexpire(redisKey, windowMs)
RedisPexpireStep(r) ==
    /\ reqs[r].pc = "pexpire"
    /\ LET rk == RedisKey("ip1", rlPolicy.windowMs, reqs[r].at) IN
          redisCounters' = IF RedisCount(redisCounters, rk, now) = 0 THEN redisCounters
                           ELSE RedisPexpire(redisCounters, rk, now, rlPolicy.windowMs)
    /\ reqs' = [reqs EXCEPT ![r].pc = "done"]
    /\ CallerFrame

\* no counter exists yet; the calls are made under one policy
InitCallers ==
    /\ now = 0
    /\ RateLimitInit
    /\ rlPolicy \in {p \in Policies : p.maxRequests < NumRedisCallers}
    /\ AuthInit
    /\ reqs = [r \in RedisCallers |-> NoRedisCall]
    /\ CmsInit

NextCallers ==
    \/ \E r \in RedisCallers : RedisBegin(r)
    \/ \E r \in RedisCallers : RedisIncrStep(r)
    \/ \E r \in RedisCallers : RedisPexpireStep(r)
    \/ Tick

SpecCallers == InitCallers /\ [][NextCallers]_vars

\* ------------------------------------------------------------------------
\* C27
\* ------------------------------------------------------------------------

\* the calls whose Date.now() fell in time bucket b and that were admitted
AdmittedInBucket(b) ==
    {r \in RedisCallers : /\ reqs[r].pc \in {"pexpire", "done"}
                          /\ reqs[r].allowed
                          /\ reqs[r].at \div rlPolicy.windowMs = b}

\* C27: with the external store, of the calls of one identifier that fall in
\* one time bucket at most maxRequests are admitted, however the calls
\* interleave.
C27_BucketBound ==
    \A b \in 0..MaxTicks : Cardinality(AdmittedInBucket(b)) <= rlPolicy.maxRequests

\* ------------------------------------------------------------------------
\* One identifier calling routes of several endpoint classes: every call goes
\* through checkRateLimit with the preset of its route, against the one
\* requestStore keyed by getClientIdentifier(request)
\* ------------------------------------------------------------------------

MaxPolicyCalls == 7

\* rateLimitPresets.auth, .comment and .read by name
Presets == [auth |-> AuthPreset, comment |-> CommentPreset, read |-> ReadPreset]

PresetNames == {"auth", "comment", "read"}

\* rateLimitMiddleware(request, rateLimitPresets[name]) of a request of ip1
PresetCall(name) ==
    /\ Len(reqs) < MaxPolicyCalls
    /\ CheckRateLimit("ip1", Presets[name])
    /\ reqs' = Append(reqs,
         [policy |-> name, at |-> now,
          allowed |-> RateLimitAllows("ip1", Presets[name]),
          retryAfterMs |-> rlResult'.retryAfterMs])
    /\ UNCHANGED <<now, rlPolicy, redisCounters, authVars, cmsVars>>

\* the caller of a rejected call waits for the time of its Retry-After header
WaitRetryAfter ==
    /\ reqs # <<>>
    /\ LET last == reqs[Len(reqs)] IN
          /\ ~last.allowed
          /\ now < last.at + last.retryAfterMs
          /\ now' = last.at + last.retryAfterMs
    /\ UNCHANGED <<rlVars, authVars, reqs, cmsVars>>

InitPresets ==
    /\ now = 0
    /\ RateLimitIdle
    /\ AuthInit
    /\ reqs = <<>>
    /\ CmsInit

NextPresets == (\E name \in PresetNames : PresetCall(name)) \/ Tick \/ WaitRetryAfter

SpecPresets == InitPresets /\ [][NextPresets]_vars

\* ------------------------------------------------------------------------
\* C28
\* ------------------------------------------------------------------------

\* C28: a call made retryAfterMs after a rejected call, by the same
\* identifier under the same policy and with no call in between, is admitted.
C28_RetryAfterSuffices ==
    \A i \in 1..(Len(reqs) - 1) :
        (/\ ~reqs[i].allowed
         /\ reqs[i + 1].policy = reqs[i].policy
         /\ reqs[i + 1].at = reqs[i].at + reqs[i].retryAfterMs)
        => reqs[i + 1].allowed

\* ------------------------------------------------------------------------
\* C29
\* ------------------------------------------------------------------------

\* the calls up to call i admitted under its policy less than one window of
\* that policy before it, call i included
AdmittedInWindow(i) ==
    {j \in 1..i : /\ reqs[j].policy = reqs[i].policy
                  /\ reqs[j].allowed
                  /\ reqs[i].at - reqs[j].at < Presets[reqs[i].policy].windowMs}

\* C29: with calls under several policies interleaved, the calls admitted
\* under each policy within any window of that policy still number at most
\* the policy's maxRequests.
C29_EachPolicyHolds ==
    \A i \in 1..Len(reqs) :
        reqs[i].allowed =>
            Cardinality(AdmittedInWindow(i)) <= Presets[reqs[i].policy].maxRequests

\* ------------------------------------------------------------------------
\* appCache (LruCache) under the blog page's getOrSet and the cache
\* invalidation of POST /api/posts, each await a step of its own
\* ------------------------------------------------------------------------

NumCacheCallers == 3
MaxCachePosts == 2

CacheCallers == 1..NumCacheCallers

\* `blog-list:${page}:${limit}` with page = 1 and limit = 9
BlogListKey == "blog-list:1:9"

BLOG_LIST_TTL_MS == 600000

\* a getOrSet call: where it is, how many deletes had returned when it was
\* made and when the factory whose value it holds was started, the caller
\* whose promise it awaits
NoCacheCall == [pc |-> "idle", calledAt |-> 0, value |-> {}, factoryAt |-> 0, on |-> 0]

\* LruCache.get(key): the entry unless missing or expired
CacheGet(cache, key, t) ==
    IF key \in DOMAIN cache /\ ~(t > cache[key].expiresAt)
    THEN cache[key]
    ELSE [pending |-> FALSE, value |-> {}, by |-> 0, factoryAt |-> 0, expiresAt |-> 0]

\* LruCache.get(key) is not undefined
CacheHas(cache, key, t) == key \in DOMAIN cache /\ ~(t > cache[key].expiresAt)

\* LruCache.set(key, value, ttlMs); the cache of 500 entries is never full
CacheSet(cache, key, entry, ttlMs, t) ==
    [k \in DOMAIN cache \cup {key} |->
        IF k = key
        THEN [pending |-> entry.pending, value |-> entry.value, by |-> entry.by,
              factoryAt |-> entry.factoryAt, expiresAt |-> t + ttlMs]
        ELSE cache[k]]

\* LruCache.delete(key)
CacheDelete(cache, key) == [k \in DOMAIN cache \ {key} |-> cache[k]]

CacheFrame == UNCHANGED <<now, rlVars, authVars, comments, messages, responseCache,
                          modLog, postImages, cmsLast>>

\* appCache.getOrSet(key, ttl, factory) up to its first await: a cached value
\* is returned, a cached promise awaited, and otherwise the factory is
\* started and its promise cached
GetOrSetBegin(r) ==
    /\ reqs.calls[r].pc = "idle"
    /\ LET cached == CacheGet(appCache, BlogListKey, now)
           call == [NoCacheCall EXCEPT !.calledAt = reqs.deletes]
       IN  IF CacheHas(appCache, BlogListKey, now)
           THEN /\ reqs' = [reqs EXCEPT !.calls[r] =
                       IF cached.pending
                       THEN [call EXCEPT !.pc = "awaiting", !.on = cached.by]
                       ELSE [call EXCEPT !.pc = "done", !.value = cached.value,
                                         !.factoryAt = cached.factoryAt]]
                /\ UNCHANGED appCache
           ELSE /\ reqs' = [reqs EXCEPT !.calls[r] =
                       [call EXCEPT !.pc = "loading", !.factoryAt = reqs.deletes]]
                /\ appCache' = CacheSet(appCache, BlogListKey,
                                        [pending |-> TRUE, value |-> {}, by |-> r,
                                         factoryAt |-> reqs.deletes],
                                        BLOG_LIST_TTL_MS, now)
    /\ UNCHANGED <<posts, nextId>>
    /\ CacheFrame

\* the factory: prisma.post.findMany({ where: { published: true }, ... })
FactoryQuery(r) ==
    /\ reqs.calls[r].pc = "loading"
    /\ reqs' = [reqs EXCEPT !.calls[r].pc = "loaded",
                            !.calls[r].value = {p.id : p \in {q \in posts : q.published}}]
    /\ UNCHANGED <<posts, nextId, appCache>>
    /\ CacheFrame

\* const resolved = await pending; this.set(key, resolved, ttlMs); return resolved
GetOrSetResolved(r) ==
    /\ reqs.calls[r].pc = "loaded"
    /\ appCache' = CacheSet(appCache, BlogListKey,
                            [pending |-> FALSE, value |-> reqs.calls[r].value, by |-> r,
                             factoryAt |-> reqs.calls[r].factoryAt],
                            BLOG_LIST_TTL_MS, now)
    /\ reqs' = [reqs EXCEPT !.calls[r].pc = "done"]
    /\ UNCHANGED <<posts, nextId>>
    /\ CacheFrame

\* return await cached: the cached promise of another call has resolved
GetOrSetAwaited(r) ==
    /\ reqs.calls[r].pc = "awaiting"
    /\ reqs.calls[reqs.calls[r].on].pc \in {"loaded", "done"}
    /\ reqs' = [reqs EXCEPT !.calls[r].pc = "done",
                            !.calls[r].value = reqs.calls[reqs.calls[r].on].value,
                            !.calls[r].factoryAt = reqs.calls[reqs.calls[r].on].factoryAt]
    /\ UNCHANGED <<posts, nextId, appCache>>
    /\ CacheFrame

\* POST /api/posts: the transaction that creates the post commits
PostCreated ==
    /\ ~reqs.creating
    /\ nextId.post <= MaxCachePosts
    /\ posts' = posts \cup {[id |-> nextId.post, published |-> TRUE]}
    /\ nextId' = [nextId EXCEPT !.post = @ + 1]
    /\ reqs' = [reqs EXCEPT !.creating = TRUE]
    /\ UNCHANGED appCache
    /\ CacheFrame

\* POST /api/posts: appCache.delete('blog-list:1:9') has returned
PostInvalidates ==
    /\ reqs.creating
    /\ appCache' = CacheDelete(appCache, BlogListKey)
    /\ reqs' = [reqs EXCEPT !.creating = FALSE, !.deletes = @ + 1]
    /\ UNCHANGED <<posts, nextId>>
    /\ CacheFrame

InitCache ==
    /\ now = 0
    /\ RateLimitIdle
    /\ AuthInit
    /\ reqs = [calls |-> [r \in CacheCallers |-> NoCacheCall], deletes |-> 0,
               creating |-> FALSE]
    /\ CmsInit

NextCache ==
    \/ \E r \in CacheCallers : GetOrSetBegin(r)
    \/ \E r \in CacheCallers : FactoryQuery(r)
    \/ \E r \in CacheCallers : GetOrSetResolved(r)
    \/ \E r \in CacheCallers : GetOrSetAwaited(r)
    \/ PostCreated
    \/ PostInvalidates

SpecCache == InitCache /\ [][NextCache]_vars

\* ------------------------------------------------------------------------
\* C30
\* ------------------------------------------------------------------------

\* C30: a getOrSet made after appCache.delete(key) has returned never returns
\* the value of a factory invocation that was started before that delete.
C30_NoLoadFromBeforeDelete ==
    \A r \in CacheCallers :
        reqs.calls[r].pc = "done" => reqs.calls[r].factoryAt >= reqs.calls[r].calledAt

====
